---- MODULE Spec2Model ----
(***************************************************************************)
(* The PLAN-file editing engine of scripts/ai_tools/update_plan.py.        *)
(*                                                                         *)
(* A Python str is a sequence of one-character strings, so that indexing,  *)
(* slicing, str.lower, str.startswith, the `in` substring test, str.split  *)
(* and str.join are computed character by character.  The plan file is the *)
(* variable content; every function of the module is an action that is     *)
(* applied to the file content and records its arguments and its return    *)
(* value.                                                                  *)
(***************************************************************************)
EXTENDS Integers, Sequences, FiniteSets, TLC

VARIABLES content, op, arg, before, ret, steps

vars == <<content, op, arg, before, ret, steps>>

\* Number of calls made on one plan file in one behaviour.
MaxOps == 2

----------------------------------------------------------------------------
(* Python values *)

\* Python's None; no str of the model equals it (its only element is not a
\* single character).
None == <<"None">>

\* The IndexError raised by an out-of-range list subscript.
IndexError == <<"IndexError">>

NL == "\n"

UpperCase == <<"A", "B", "C", "D", "E", "F", "G", "H", "I", "J", "K", "L", "M",
               "N", "O", "P", "Q", "R", "S", "T", "U", "V", "W", "X", "Y", "Z">>

LowerCase == <<"a", "b", "c", "d", "e", "f", "g", "h", "i", "j", "k", "l", "m",
               "n", "o", "p", "q", "r", "s", "t", "u", "v", "w", "x", "y", "z">>

\* The lower-case letter of each upper-case letter.
LowerOf == [c \in {UpperCase[i] : i \in 1..26} |->
               LowerCase[CHOOSE i \in 1..26 : UpperCase[i] = c]]

\* str.lower() on one character.
LowerChar(c) == IF c \in DOMAIN LowerOf THEN LowerOf[c] ELSE c

\* str.lower()
Lower(s) == [i \in 1..Len(s) |-> LowerChar(s[i])]

\* str.startswith(prefix)
StartsWith(s, prefix) ==
    /\ Len(prefix) <= Len(s)
    /\ SubSeq(s, 1, Len(prefix)) = prefix

\* `sub in s` on two str
Contains(s, sub) ==
    \E i \in 0..(Len(s) - Len(sub)) : SubSeq(s, i + 1, i + Len(sub)) = sub

\* str.split("\n") from the 1-based position i on, the current piece having
\* started at position start.
RECURSIVE SplitFrom(_, _, _)
SplitFrom(s, i, start) ==
    IF i > Len(s) THEN <<SubSeq(s, start, Len(s))>>
    ELSE IF s[i] = NL
         THEN <<SubSeq(s, start, i - 1)>> \o SplitFrom(s, i + 1, i + 1)
         ELSE SplitFrom(s, i + 1, start)

\* str.split("\n"): the list of the pieces between newlines; never empty.
Split(s) == SplitFrom(s, 1, 1)

\* "\n".join(lines)
RECURSIVE Join(_)
Join(lines) ==
    IF Len(lines) = 0 THEN <<>>
    ELSE IF Len(lines) = 1 THEN lines[1]
    ELSE lines[1] \o <<NL>> \o Join(Tail(lines))

\* `lines[idx] = x` in the place of list.insert: the line at idx is lost.
ListInsert_assign(lines, idx, x) ==
    SubSeq(lines, 1, idx) \o <<x>> \o SubSeq(lines, idx + 2, Len(lines))

\* list.insert(idx, x) with a 0-based idx in 0..len(list)
ListInsert(lines, idx, x) ==
    SubSeq(lines, 1, idx) \o <<x>> \o SubSeq(lines, idx + 1, Len(lines))

\* list.pop(idx) with a 0-based idx: the list without that element
ListPop(lines, idx) ==
    SubSeq(lines, 1, idx) \o SubSeq(lines, idx + 2, Len(lines))

\* lines[a:b] with 0 <= a, b <= len(lines)
Slice(lines, a, b) == SubSeq(lines, a + 1, b)

----------------------------------------------------------------------------
(* The regular expressions *)

\* The class \s of the re module, on the characters a line can hold.
IsSpace(c) == c \in {" ", "\t", "\r", "\f"}

\* \s* from the 1-based position i: the position of the first character at or
\* after i that is not white space (Len(s) + 1 when there is none).
RECURSIVE SkipSpace(_, _)
SkipSpace(s, i) ==
    IF i <= Len(s) /\ IsSpace(s[i]) THEN SkipSpace(s, i + 1) ELSE i

\* re.match(r"^\s*-\s*\[([ x])\]", line): the 1-based position of the closing
\* bracket of the match, 0 when the line does not match.  No character after
\* \s* can be white space, so the greedy match is the only one.
CheckboxMatch(line) ==
    LET d == SkipSpace(line, 1)
        b == SkipSpace(line, d + 1)
    IN  IF /\ d <= Len(line)
           /\ line[d] = "-"
           /\ b + 2 <= Len(line)
           /\ line[b] = "["
           /\ line[b + 1] \in {" ", "x"}
           /\ line[b + 2] = "]"
        THEN b + 2
        ELSE 0

\* match.group(1) of the pattern above: the character between the brackets.
MarkerChar(line) == line[CheckboxMatch(line) - 1]

\* match.group(2) of r"^\s*-\s*\[([ x])\]\s*(.*)$": the item text, what
\* follows the marker and the white space after it.
ItemText(line) ==
    SubSeq(line, SkipSpace(line, CheckboxMatch(line) + 1), Len(line))

\* re.search of r"\[([ x])\]": the 1-based position of the first "[" that
\* opens a marker, 0 when the line holds none.
FirstMarker(line) ==
    LET hits == {i \in 1..(Len(line) - 2) :
                    /\ line[i] = "["
                    /\ line[i + 1] \in {" ", "x"}
                    /\ line[i + 2] = "]"}
    IN  IF hits = {} THEN 0
        ELSE CHOOSE i \in hits : \A j \in hits : i <= j

----------------------------------------------------------------------------
(* The functions of update_plan.py.  A list index is 0-based, as in Python. *)

\* lines[i]
At(lines, i) == lines[i + 1]

\* range(len(lines))
Indices(lines) == 0..(Len(lines) - 1)

Min(S) == CHOOSE x \in S : \A y \in S : x <= y

Max(S) == CHOOSE x \in S : \A y \in S : x >= y

\* The prefixes the code tests with str.startswith.
PhasePrefix == <<"#", "#", "#", " ", "P", "h", "a", "s", "e">>

H3Prefix == <<"#", "#", "#">>

H4Prefix == <<"#", "#", "#", "#", " ">>

H2Prefix == <<"#", "#">>

\* f"- {item_text}": a list item without a checkbox.
NewItemLine_plain(item_text) == <<"-", " ">> \o item_text

\* f"- [ ] {item_text}"
NewItemLine(item_text) == <<"-", " ", "[", " ", "]", " ">> \o item_text

\* find_checkbox_line without the return inside the loop: the last match.
find_checkbox_line_last(content_, item_text) ==
    LET lines == Split(content_)
        item_lower == Lower(item_text)
        hits == {i \in Indices(lines) :
                    /\ CheckboxMatch(At(lines, i)) # 0
                    /\ Contains(Lower(At(lines, i)), item_lower)}
    IN  IF hits = {} THEN None
        ELSE <<Max(hits), At(lines, Max(hits))>>

\* for i, line in enumerate(lines): if <checkbox pattern> and item_lower in
\* line.lower(): return (i, line); return None after the loop.
find_checkbox_line(content_, item_text) ==
    LET lines == Split(content_)
        item_lower == Lower(item_text)
        hits == {i \in Indices(lines) :
                    /\ CheckboxMatch(At(lines, i)) # 0
                    /\ Contains(Lower(At(lines, i)), item_lower)}
    IN  IF hits = {} THEN None
        ELSE <<Min(hits), At(lines, Min(hits))>>

\* toggle_checkbox without count=1: every marker of the line is replaced.
toggle_checkbox_all(line, check) ==
    [i \in 1..Len(line) |->
        IF /\ 1 < i
           /\ i < Len(line)
           /\ line[i - 1] = "["
           /\ line[i] \in {" ", "x"}
           /\ line[i + 1] = "]"
        THEN (IF check THEN "x" ELSE " ")
        ELSE line[i]]

\* re.sub(r"\[([ x])\]", checkbox, line, count=1)
toggle_checkbox(line, check) ==
    LET checkbox == IF check THEN <<"[", "x", "]">> ELSE <<"[", " ", "]">>
        k == FirstMarker(line)
    IN  IF k = 0 THEN line
        ELSE SubSeq(line, 1, k - 1) \o checkbox \o SubSeq(line, k + 3, Len(line))

\* count_checkboxes_loop without the test of match.group(1): every checkbox
\* line counts as checked.
RECURSIVE count_checkboxes_loop_all(_, _, _, _)
count_checkboxes_loop_all(lines, i, checked, total) ==
    IF i >= Len(lines) THEN <<checked, total>>
    ELSE IF CheckboxMatch(At(lines, i)) # 0
         THEN count_checkboxes_loop_all(lines, i + 1, checked + 1, total + 1)
         ELSE count_checkboxes_loop_all(lines, i + 1, checked, total)

\* The loop of count_checkboxes from line i on, with the counters so far.
RECURSIVE count_checkboxes_loop(_, _, _, _)
count_checkboxes_loop(lines, i, checked, total) ==
    IF i >= Len(lines) THEN <<checked, total>>
    ELSE IF CheckboxMatch(At(lines, i)) # 0
         THEN count_checkboxes_loop(
                  lines, i + 1,
                  IF MarkerChar(At(lines, i)) = "x" THEN checked + 1 ELSE checked,
                  total + 1)
         ELSE count_checkboxes_loop(lines, i + 1, checked, total)

count_checkboxes(content_) == count_checkboxes_loop(Split(content_), 0, 0, 0)

\* extract_all_checkbox_items without `if match:`: every line gives an item.
extract_all_checkbox_items_lines(content_) ==
    LET lines == Split(content_)
    IN  [k \in 1..Len(lines) |-> ItemText(lines[k])]

\* items.append(match.group(2)) for the lines the pattern matches, in order.
extract_all_checkbox_items(content_) ==
    LET lines == Split(content_)
        matching == SelectSeq(lines, LAMBDA line : CheckboxMatch(line) # 0)
    IN  [k \in 1..Len(matching) |-> ItemText(matching[k])]

\* lines[line_num] of the first loop raises IndexError when line_num is
\* len(lines) or more.
extract_phase_section(content_, line_num) ==
    LET lines == Split(content_)
        starts == {i \in 0..line_num : StartsWith(At(lines, i), PhasePrefix)}
        phase_start == IF starts = {} THEN 0 ELSE Max(starts)
        ends == {i \in (line_num + 1)..(Len(lines) - 1) :
                    StartsWith(At(lines, i), H3Prefix)}
        phase_end == IF ends = {} THEN Len(lines) ELSE Min(ends)
    IN  IF line_num >= Len(lines) THEN IndexError
        ELSE Join(Slice(lines, phase_start, phase_end))

\* The header loop with `phase_name in line`: the case is not ignored.
PhaseIndex_cs(lines, phase_name) ==
    LET found == {i \in Indices(lines) :
                     /\ StartsWith(At(lines, i), PhasePrefix)
                     /\ Contains(At(lines, i), phase_name)}
    IN  IF found = {} THEN -1 ELSE Min(found)

\* The index of the first "### Phase" line that holds the name, -1 if none:
\* the header loop shared by find_phase_section and add_item_to_plan.
PhaseIndex(lines, phase_name) ==
    LET phase_name_lower == Lower(phase_name)
        found == {i \in Indices(lines) :
                     /\ StartsWith(At(lines, i), PhasePrefix)
                     /\ Contains(Lower(At(lines, i)), phase_name_lower)}
    IN  IF found = {} THEN -1 ELSE Min(found)

\* find_phase_section with `"###" in lines[i]` for the end of the phase.
find_phase_section_in(content_, phase_name) ==
    LET lines == Split(content_)
        phase_start == PhaseIndex(lines, phase_name)
        ends == {i \in (phase_start + 1)..(Len(lines) - 1) :
                    Contains(At(lines, i), H3Prefix)}
        phase_end == IF ends = {} THEN Len(lines) ELSE Min(ends)
    IN  IF phase_start = -1 THEN <<>>
        ELSE Join(Slice(lines, phase_start, phase_end))

find_phase_section(content_, phase_name) ==
    LET lines == Split(content_)
        phase_start == PhaseIndex(lines, phase_name)
        ends == {i \in (phase_start + 1)..(Len(lines) - 1) :
                    StartsWith(At(lines, i), H3Prefix)}
        phase_end == IF ends = {} THEN Len(lines) ELSE Min(ends)
    IN  IF phase_start = -1 THEN <<>>
        ELSE Join(Slice(lines, phase_start, phase_end))

\* line.startswith("##") and not line.startswith("###")
IsTopLevelHeading(line) ==
    StartsWith(line, H2Prefix) /\ ~StartsWith(line, H3Prefix)

\* FirstTopLevelIndex without `not line.startswith("###")`.
FirstTopLevelIndex_h2(lines) ==
    LET tops == {i \in Indices(lines) : StartsWith(At(lines, i), H2Prefix)}
    IN  IF tops = {} THEN Len(lines) ELSE Min(tops)

\* The index add_item_to_plan and add_phase_to_plan insert at when they look
\* for the first "##" section: that line, or len(lines).
FirstTopLevelIndex(lines) ==
    LET tops == {i \in Indices(lines) : IsTopLevelHeading(At(lines, i))}
    IN  IF tops = {} THEN Len(lines) ELSE Min(tops)

\* PhaseInsertIndex without `not lines[i].startswith("#### ")`.
PhaseInsertIndex_h4(lines, target_phase_idx) ==
    LET breaks == {i \in (target_phase_idx + 1)..(Len(lines) - 1) :
                      \/ StartsWith(At(lines, i), H3Prefix)
                      \/ IsTopLevelHeading(At(lines, i))}
        stop == IF breaks = {} THEN Len(lines) ELSE Min(breaks)
        boxes == {i \in (target_phase_idx + 1)..(stop - 1) :
                     CheckboxMatch(At(lines, i)) # 0}
    IN  IF boxes = {} THEN target_phase_idx + 1 ELSE Max(boxes) + 1

\* The loop "Find last checkbox in this phase" of add_item_to_plan: the value
\* of insert_idx when the loop ends, by break or by exhaustion.
PhaseInsertIndex(lines, target_phase_idx) ==
    LET breaks == {i \in (target_phase_idx + 1)..(Len(lines) - 1) :
                      \/ /\ StartsWith(At(lines, i), H3Prefix)
                         /\ ~StartsWith(At(lines, i), H4Prefix)
                      \/ IsTopLevelHeading(At(lines, i))}
        stop == IF breaks = {} THEN Len(lines) ELSE Min(breaks)
        boxes == {i \in (target_phase_idx + 1)..(stop - 1) :
                     CheckboxMatch(At(lines, i)) # 0}
    IN  IF boxes = {} THEN target_phase_idx + 1 ELSE Max(boxes) + 1

\* LastCheckboxIndex with a break after the first checkbox.
LastCheckboxIndex_first(lines) ==
    LET boxes == {i \in Indices(lines) : CheckboxMatch(At(lines, i)) # 0}
    IN  IF boxes = {} THEN -1 ELSE Min(boxes)

\* The loop "Find last checkbox in entire plan" of add_item_to_plan: the
\* value of last_checkbox_idx when it ends.
LastCheckboxIndex(lines) ==
    LET boxes == {i \in Indices(lines) : CheckboxMatch(At(lines, i)) # 0}
    IN  IF boxes = {} THEN -1 ELSE Max(boxes)

\* add_item_to_plan without `lines.insert(insert_idx, "")`: no blank line
\* comes with an item whose phase is not found.
add_item_to_plan_noblank(plan_content, item_text, phase) ==
    LET lines == Split(plan_content)
        new_item == NewItemLine(item_text)
    IN  IF phase # None /\ phase # <<>>
        THEN LET target_phase_idx == PhaseIndex(lines, phase)
             IN  IF target_phase_idx = -1
                 THEN Join(ListInsert(lines, FirstTopLevelIndex(lines), new_item))
                 ELSE Join(ListInsert(lines,
                                      PhaseInsertIndex(lines, target_phase_idx),
                                      new_item))
        ELSE LET last_checkbox_idx == LastCheckboxIndex(lines)
             IN  IF last_checkbox_idx = -1
                 THEN Join(Append(lines, new_item))
                 ELSE Join(ListInsert(lines, last_checkbox_idx + 1, new_item))

\* `if phase:` is false for None and for the empty str.
add_item_to_plan(plan_content, item_text, phase) ==
    LET lines == Split(plan_content)
        new_item == NewItemLine(item_text)
    IN  IF phase # None /\ phase # <<>>
        THEN LET target_phase_idx == PhaseIndex(lines, phase)
             IN  IF target_phase_idx = -1
                 THEN LET insert_idx == FirstTopLevelIndex(lines)
                      IN  Join(ListInsert(ListInsert(lines, insert_idx, new_item),
                                          insert_idx, <<>>))
                 ELSE Join(ListInsert(lines,
                                      PhaseInsertIndex(lines, target_phase_idx),
                                      new_item))
        ELSE LET last_checkbox_idx == LastCheckboxIndex(lines)
             IN  IF last_checkbox_idx = -1
                 THEN Join(Append(lines, new_item))
                 ELSE Join(ListInsert(lines, last_checkbox_idx + 1, new_item))

\* remove_item_from_plan without the break: every matching line goes.
remove_item_from_plan_all(plan_content, item_pattern) ==
    LET lines == Split(plan_content)
        pattern_lower == Lower(item_pattern)
    IN  Join(SelectSeq(lines,
                       LAMBDA line : ~(/\ CheckboxMatch(line) # 0
                                       /\ Contains(Lower(line), pattern_lower))))

remove_item_from_plan(plan_content, item_pattern) ==
    LET lines == Split(plan_content)
        pattern_lower == Lower(item_pattern)
        hits == {i \in Indices(lines) :
                    /\ CheckboxMatch(At(lines, i)) # 0
                    /\ Contains(Lower(At(lines, i)), pattern_lower)}
    IN  IF hits = {} THEN Join(lines)
        ELSE Join(ListPop(lines, Min(hits)))

\* rename_item_in_plan that writes a fresh unchecked item for the new text.
rename_item_in_plan_fresh(plan_content, old_text, new_text) ==
    LET lines == Split(plan_content)
        old_lower == Lower(old_text)
        hits == {i \in Indices(lines) :
                    /\ CheckboxMatch(At(lines, i)) # 0
                    /\ Contains(Lower(At(lines, i)), old_lower)}
    IN  IF hits = {} THEN Join(lines)
        ELSE Join([lines EXCEPT ![Min(hits) + 1] = NewItemLine(new_text)])

\* The pattern of rename_item_in_plan, r"^(\s*-\s*\[([ x])\])\s*(.*)$", matches
\* the lines the checkbox pattern matches; group(1) ends at the closing bracket.
rename_item_in_plan(plan_content, old_text, new_text) ==
    LET lines == Split(plan_content)
        old_lower == Lower(old_text)
        hits == {i \in Indices(lines) :
                    /\ CheckboxMatch(At(lines, i)) # 0
                    /\ Contains(Lower(At(lines, i)), old_lower)}
    IN  IF hits = {} THEN Join(lines)
        ELSE LET i == Min(hits)
                 checkbox_part == SubSeq(At(lines, i), 1, CheckboxMatch(At(lines, i)))
             IN  Join([lines EXCEPT ![i + 1] = checkbox_part \o <<" ">> \o new_text])

\* add_phase_to_plan without `phase_lines.append("")`: no blank line ends the
\* new phase.
add_phase_to_plan_noblank(plan_content, phase_name, items) ==
    LET lines == Split(plan_content)
        insert_idx == FirstTopLevelIndex(lines)
        phase_lines == <<H3Prefix \o <<" ">> \o phase_name>>
                       \o [j \in 1..Len(items) |-> NewItemLine(items[j])]
    IN  Join(SubSeq(lines, 1, insert_idx) \o phase_lines
             \o SubSeq(lines, insert_idx + 1, Len(lines)))

\* items is a list of str; the default None and the empty list both fail
\* `if items:` and are the empty list here.
add_phase_to_plan(plan_content, phase_name, items) ==
    LET lines == Split(plan_content)
        insert_idx == FirstTopLevelIndex(lines)
        phase_lines == <<H3Prefix \o <<" ">> \o phase_name>>
                       \o [j \in 1..Len(items) |-> NewItemLine(items[j])]
                       \o <<<<>>>>
    IN  Join(SubSeq(lines, 1, insert_idx) \o phase_lines
             \o SubSeq(lines, insert_idx + 1, Len(lines)))

\* The white space of str.strip() and str.split(): the class \s and the
\* newline, which a line of the plan cannot hold and an argument can.
IsWhite(c) == IsSpace(c) \/ c = NL

\* The 1-based position of the first character at or after i that is not
\* white space, Len(s) + 1 when there is none.
RECURSIVE SkipWhite(_, _)
SkipWhite(s, i) ==
    IF i <= Len(s) /\ IsWhite(s[i]) THEN SkipWhite(s, i + 1) ELSE i

\* The 1-based position of the first white space at or after i, Len(s) + 1
\* when there is none.
RECURSIVE SkipWord(_, _)
SkipWord(s, i) ==
    IF i <= Len(s) /\ ~IsWhite(s[i]) THEN SkipWord(s, i + 1) ELSE i

\* The 1-based position of the last character at or before i that is not
\* white space, 0 when there is none.
RECURSIVE SkipWhiteBack(_, _)
SkipWhiteBack(s, i) ==
    IF i >= 1 /\ IsWhite(s[i]) THEN SkipWhiteBack(s, i - 1) ELSE i

\* str.strip()
Strip(s) == SubSeq(s, SkipWhite(s, 1), SkipWhiteBack(s, Len(s)))

\* str.split() from the 1-based position i on: the words between runs of
\* white space, none of them empty.
RECURSIVE SplitWords(_, _)
SplitWords(s, i) ==
    LET a == SkipWhite(s, i)
        b == SkipWord(s, a)
    IN  IF a > Len(s) THEN <<>>
        ELSE <<SubSeq(s, a, b - 1)>> \o SplitWords(s, b)

\* " ".join(words)
RECURSIVE JoinWords(_)
JoinWords(words) ==
    IF Len(words) = 0 THEN <<>>
    ELSE IF Len(words) = 1 THEN words[1]
    ELSE words[1] \o <<" ">> \o JoinWords(Tail(words))

\* " ".join(s.lower().split())
Normalize(s) == JoinWords(SplitWords(Lower(s), 1))

\* A message is the list of the parts of its f-string: the literal texts as
\* they stand and the str values put between them.  "\n  * " stands for the
\* separator of the phase list, whose bullet is not an ASCII character.
BulletSep == "\n  * "

\* "\n  * ".join(available_phases), as the parts of the message.
RECURSIVE JoinBullets(_)
JoinBullets(available_phases) ==
    IF Len(available_phases) = 0 THEN <<>>
    ELSE IF Len(available_phases) = 1 THEN <<available_phases[1]>>
    ELSE <<available_phases[1], BulletSep>> \o JoinBullets(Tail(available_phases))

\* validate_phase_loop with `phase_name in line`: the case counts.
RECURSIVE validate_phase_loop_cs(_, _, _, _)
validate_phase_loop_cs(lines, i, phase_name_lower, available_phases) ==
    IF i >= Len(lines) THEN <<FALSE, available_phases>>
    ELSE IF StartsWith(At(lines, i), PhasePrefix)
         THEN IF Contains(At(lines, i), phase_name_lower)
              THEN <<TRUE, Append(available_phases, Strip(At(lines, i)))>>
              ELSE validate_phase_loop_cs(lines, i + 1, phase_name_lower,
                                          Append(available_phases,
                                                 Strip(At(lines, i))))
         ELSE validate_phase_loop_cs(lines, i + 1, phase_name_lower,
                                     available_phases)

\* The loop "Find all phase headers" of validate_phase_exists from line i on:
\* whether it returned from inside, and available_phases when it ended.
RECURSIVE validate_phase_loop(_, _, _, _)
validate_phase_loop(lines, i, phase_name_lower, available_phases) ==
    IF i >= Len(lines) THEN <<FALSE, available_phases>>
    ELSE IF StartsWith(At(lines, i), PhasePrefix)
         THEN IF Contains(Lower(At(lines, i)), phase_name_lower)
              THEN <<TRUE, Append(available_phases, Strip(At(lines, i)))>>
              ELSE validate_phase_loop(lines, i + 1, phase_name_lower,
                                       Append(available_phases,
                                              Strip(At(lines, i))))
         ELSE validate_phase_loop(lines, i + 1, phase_name_lower,
                                  available_phases)

\* The result is None or the error message.
validate_phase_exists(plan_content, phase_name) ==
    IF phase_name = None THEN None
    ELSE LET loop == validate_phase_loop(Split(plan_content), 0,
                                         Lower(phase_name), <<>>)
             available_phases == loop[2]
         IN  IF loop[1] THEN None
             ELSE IF available_phases = <<>>
             THEN <<"Phase '", phase_name,
                    "' does not exist. No phases found in plan. Use --add-phase to create phases first.">>
             ELSE <<"Phase '", phase_name,
                    "' does not exist in plan.\n\nAvailable phases:\n  * ">>
                  \o JoinBullets(available_phases)
                  \o <<"\n\nUse --add-phase to create it, or choose an existing phase.">>

\* validate_no_duplicates with `new_item_normalized in existing_normalized`.
validate_no_duplicates_sub(plan_content, new_item) ==
    LET lines == Split(plan_content)
        new_item_normalized == Normalize(new_item)
        dups == {i \in Indices(lines) :
                    /\ CheckboxMatch(At(lines, i)) # 0
                    /\ Contains(Normalize(ItemText(At(lines, i))),
                                new_item_normalized)}
    IN  IF dups = {} THEN None
        ELSE <<"Item '", new_item,
               "' already exists in plan. Use --rename to modify it or --remove to delete it.">>

\* The loop returns the message at the first checkbox line whose normalized
\* item text is the normalized new item; the message is the same at each.
validate_no_duplicates(plan_content, new_item) ==
    LET lines == Split(plan_content)
        new_item_normalized == Normalize(new_item)
        dups == {i \in Indices(lines) :
                    /\ CheckboxMatch(At(lines, i)) # 0
                    /\ Normalize(ItemText(At(lines, i))) = new_item_normalized}
    IN  IF dups = {} THEN None
        ELSE <<"Item '", new_item,
               "' already exists in plan. Use --rename to modify it or --remove to delete it.">>

\* min(insertions, deletions, substitutions)
Min3(a, b, c) == Min({a, b, c})

\* The inner loop with a substitution that always costs 1.
RECURSIVE levenshtein_inner_cost1(_, _, _, _, _)
levenshtein_inner_cost1(c1, s2, j, previous_row, current_row) ==
    IF j >= Len(s2) THEN current_row
    ELSE LET insertions == previous_row[j + 2] + 1
             deletions == current_row[j + 1] + 1
             substitutions == previous_row[j + 1] + 1
             appended == Append(current_row,
                                Min3(insertions, deletions, substitutions))
         IN  levenshtein_inner_cost1(c1, s2, j + 1, previous_row, appended)

\* The loop `for j, c2 in enumerate(s2)` from j on, for the character c1 of
\* s1: current_row when the loop ends.  A row is a list, so row[j] of the
\* code is row[j + 1] here.
RECURSIVE levenshtein_inner(_, _, _, _, _)
levenshtein_inner(c1, s2, j, previous_row, current_row) ==
    IF j >= Len(s2) THEN current_row
    ELSE LET cost == IF c1 = s2[j + 1] THEN 0 ELSE 1
             insertions == previous_row[j + 2] + 1
             deletions == current_row[j + 1] + 1
             substitutions == previous_row[j + 1] + cost
             appended == Append(current_row,
                                Min3(insertions, deletions, substitutions))
         IN  levenshtein_inner(c1, s2, j + 1, previous_row, appended)

\* The loop `for i, c1 in enumerate(s1)` from i on: previous_row when the
\* loop ends.  A row has len(s2) + 1 entries when it becomes previous_row; a
\* shorter one would make previous_row[j + 1] an IndexError.
RECURSIVE levenshtein_outer(_, _, _, _)
levenshtein_outer(s1, s2, i, previous_row) ==
    IF i >= Len(s1) THEN previous_row
    ELSE LET current_row ==
                 levenshtein_inner(s1[i + 1], s2, 0, previous_row, <<i + 1>>)
         IN  IF Len(current_row) = Len(s2) + 1
             THEN levenshtein_outer(s1, s2, i + 1, current_row)
             ELSE IndexError

\* The call swaps its arguments when s1 is the shorter one; previous_row
\* starts as list(range(len(s2) + 1)) and the result is its last element.
RECURSIVE calculate_levenshtein_distance(_, _)
calculate_levenshtein_distance(s1, s2) ==
    IF Len(s1) < Len(s2) THEN calculate_levenshtein_distance(s2, s1)
    ELSE IF Len(s2) = 0 THEN Len(s1)
    ELSE LET last_row == levenshtein_outer(s1, s2, 0,
                                           [k \in 1..(Len(s2) + 1) |-> k - 1])
         IN  last_row[Len(last_row)]

\* A similarity score is the fraction <<n, d>> with d > 0 that the float
\* expression of the code stands for.
One == <<1, 1>>

\* a >= b on two fractions
FracGeq(a, b) == a[1] * b[2] >= b[1] * a[2]

\* a = b on two fractions
FracEq(a, b) == a[1] * b[2] = b[1] * a[2]

\* The score without the substring branch: the edit distance alone.
Similarity_distance(target, item) ==
    LET target_lower == Lower(target)
        item_lower == Lower(item)
        distance == calculate_levenshtein_distance(target_lower, item_lower)
        max_len == Max({Len(target_lower), Len(item_lower)})
    IN  IF max_len = 0 THEN One ELSE <<max_len - distance, max_len>>

\* The body of the loop over items: the similarity of one item.
\* 0.7 + (0.3 * len(target_lower) / len(item_lower)) is
\* (7 * len(item_lower) + 3 * len(target_lower)) / (10 * len(item_lower)).
Similarity(target, item) ==
    LET target_lower == Lower(target)
        item_lower == Lower(item)
    IN  IF Contains(item_lower, target_lower)
        THEN IF target_lower = item_lower THEN One
             ELSE <<7 * Len(item_lower) + 3 * Len(target_lower),
                    10 * Len(item_lower)>>
        ELSE LET distance ==
                     calculate_levenshtein_distance(target_lower, item_lower)
                 max_len == Max({Len(target_lower), Len(item_lower)})
             IN  IF max_len = 0 THEN One
                 ELSE <<max_len - distance, max_len>>

\* results with the pair x put in after the pairs whose score is not lower.
InsertByScore(results, x) ==
    LET ahead == {j \in 1..Len(results) : FracGeq(results[j][2], x[2])}
        p == IF ahead = {} THEN 0 ELSE Max(ahead)
    IN  SubSeq(results, 1, p) \o <<x>> \o SubSeq(results, p + 1, Len(results))

\* results.sort(key=lambda x: x[1], reverse=True): the sort is stable, pairs
\* of equal score keep their order.
RECURSIVE SortByScore(_, _, _)
SortByScore(results, i, sorted) ==
    IF i > Len(results) THEN sorted
    ELSE SortByScore(results, i + 1, InsertByScore(sorted, results[i]))

\* find_similar_items with `similarity > threshold`.
find_similar_items_gt(target, items, threshold) ==
    LET scored == [k \in 1..Len(items) |-> <<items[k], Similarity(target, items[k])>>]
        results == SelectSeq(scored,
                             LAMBDA r : ~FracGeq(threshold, r[2]))
    IN  SortByScore(results, 1, <<>>)

\* `if not items: return []` is the empty result of the loop as well.
find_similar_items(target, items, threshold) ==
    LET scored == [k \in 1..Len(items) |-> <<items[k], Similarity(target, items[k])>>]
        results == SelectSeq(scored,
                             LAMBDA r : FracGeq(r[2], threshold))
    IN  SortByScore(results, 1, <<>>)

----------------------------------------------------------------------------
(* The plan files and the arguments the calls are made with *)

Unchecked == <<"-", " ", "[", " ", "]">>

Checked == <<"-", " ", "[", "x", "]">>

Phase1 == PhasePrefix \o <<" ", "1">>

Phase2 == PhasePrefix \o <<" ", "2">>

\* Plan files as lists of lines: two phases with items; a phase with a
\* "#### " sub-heading, an indented item, a top-level section and an item
\* after it; a last phase without items; no phase at all, an item whose text
\* holds "###", a "###" heading that is no phase, a "[X]" line that is no
\* checkbox and an item whose text is a marker; the empty file; a file that
\* ends with a newline.
InitialPlans ==
    { <<Phase1, Unchecked \o <<" ", "a">>, Checked \o <<" ", "b">>,
        Phase2, Unchecked \o <<" ", "c">>>>,
      <<Phase1, Checked \o <<" ", "a">>, <<"#", "#", "#", "#", " ", "s">>,
        <<" ", " ">> \o Unchecked \o <<" ", " ", "b">>,
        <<"#", "#", " ", "N">>, Unchecked \o <<" ", "c">>>>,
      <<Phase1, Unchecked \o <<" ", "a", "#", "#", "#">>, Phase2>>,
      <<<<"t">>, Unchecked \o <<" ", "#", "#", "#">>, <<"#", "#", "#", " ", "O">>,
        <<"-", " ", "[", "X", "]", " ", "a">>, Checked \o <<" ", "[", "x", "]">>>>,
      <<<<>>>>,
      <<Phase1, <<"-", "[", "x", "]", "A", " ", "b">>, <<>>>> }

\* The texts items are looked up by: one that items hold, one in another
\* case, one that only a `[x]` marker holds, one that only a new item holds.
Texts == {<<"a">>, <<"B">>, <<"x">>, <<"n", "z">>}

\* Texts of new and renamed items.
NewTexts == {<<"a">>, <<"n", "z">>}

\* Phase arguments: omitted, matching in another case, matching by a digit,
\* matching nothing.  A name is not empty: `if phase:` takes the empty str
\* for an omitted phase.
Phases == {None, <<"E", " ", "2">>, <<"1">>, <<"9">>}

\* The (check, uncheck) pairs of update_plan: the default, --uncheck (check
\* stays True on the command line) and a call with check=False.
Flags == {<<TRUE, FALSE>>, <<TRUE, TRUE>>, <<FALSE, FALSE>>}

\* Names and item lists for add_phase_to_plan.
PhaseNames == {<<"P", "h", "a", "s", "e", " ", "9">>, <<"Q">>}

ItemLists == {<<>>, <<<<"a">>, <<"n", "z">>>>}

\* The arguments of a call; a field a call does not take is None.
NoArg == [item_text |-> None, check |-> FALSE, uncheck |-> FALSE,
          phase |-> None, new_text |-> None, line |-> None,
          line_num |-> -1, items |-> <<>>]

----------------------------------------------------------------------------
(* The calls *)

Init ==
    /\ content \in {Join(p) : p \in InitialPlans}
    /\ op = "init"
    /\ arg = NoArg
    /\ before = content
    /\ ret = None
    /\ steps = 0

\* A behaviour makes at most MaxOps calls.
CanCall == steps < MaxOps

\* A call that returns a value and leaves the plan file alone.
Query(name, a, value) ==
    /\ steps' = steps + 1
    /\ op' = name
    /\ arg' = a
    /\ before' = content
    /\ content' = content
    /\ ret' = value

\* A call whose result is written back as the plan file.
Edit(name, a, new_content) ==
    /\ steps' = steps + 1
    /\ op' = name
    /\ arg' = a
    /\ before' = content
    /\ content' = new_content
    /\ ret' = new_content

FindCheckboxLine ==
    /\ CanCall
    /\ \E t \in Texts :
           Query("find_checkbox_line", [NoArg EXCEPT !.item_text = t],
                 find_checkbox_line(content, t))

\* toggle_checkbox on a line of the plan file.
ToggleCheckbox ==
    /\ CanCall
    /\ \E line \in {At(Split(content), i) : i \in Indices(Split(content))},
          c \in BOOLEAN :
           Query("toggle_checkbox", [NoArg EXCEPT !.line = line, !.check = c],
                 toggle_checkbox(line, c))

CountCheckboxes ==
    /\ CanCall
    /\ Query("count_checkboxes", NoArg, count_checkboxes(content))

ExtractPhaseSection ==
    /\ CanCall
    /\ \E n \in 0..Len(Split(content)) :
           Query("extract_phase_section", [NoArg EXCEPT !.line_num = n],
                 extract_phase_section(content, n))

FindPhaseSection ==
    /\ CanCall
    /\ \E ph \in Phases \ {None} :
           Query("find_phase_section", [NoArg EXCEPT !.phase = ph],
                 find_phase_section(content, ph))

\* The checkbox mode of update_plan: find the line, toggle it, write the file
\* back; exit status 1 and no write when no line is found.
UpdatePlanCheckbox ==
    /\ CanCall
    /\ \E t \in Texts, f \in Flags :
           LET c == f[1]
               u == f[2]
               result == find_checkbox_line(content, t)
               should_check == c /\ ~u
               a == [NoArg EXCEPT !.item_text = t, !.check = c, !.uncheck = u]
           IN  /\ steps' = steps + 1
               /\ op' = "update_plan"
               /\ arg' = a
               /\ before' = content
               /\ IF result = None
                  THEN /\ content' = content
                       /\ ret' = 1
                  ELSE /\ content' =
                              Join([Split(content) EXCEPT
                                       ![result[1] + 1] =
                                           toggle_checkbox(result[2], should_check)])
                       /\ ret' = 0

AddItem ==
    /\ CanCall
    /\ \E t \in NewTexts, ph \in Phases :
           Edit("add_item_to_plan", [NoArg EXCEPT !.item_text = t, !.phase = ph],
                add_item_to_plan(content, t, ph))

RemoveItem ==
    /\ CanCall
    /\ \E t \in Texts :
           Edit("remove_item_from_plan", [NoArg EXCEPT !.item_text = t],
                remove_item_from_plan(content, t))

RenameItem ==
    /\ CanCall
    /\ \E t \in Texts, n \in NewTexts :
           Edit("rename_item_in_plan",
                [NoArg EXCEPT !.item_text = t, !.new_text = n],
                rename_item_in_plan(content, t, n))

AddPhase ==
    /\ CanCall
    /\ \E n \in PhaseNames, its \in ItemLists :
           Edit("add_phase_to_plan", [NoArg EXCEPT !.phase = n, !.items = its],
                add_phase_to_plan(content, n, its))

Next ==
    \/ FindCheckboxLine
    \/ ToggleCheckbox
    \/ CountCheckboxes
    \/ ExtractPhaseSection
    \/ FindPhaseSection
    \/ UpdatePlanCheckbox
    \/ AddItem
    \/ RemoveItem
    \/ RenameItem
    \/ AddPhase

Spec == Init /\ [][Next]_vars

----------------------------------------------------------------------------
(* The lookups *)

ExtractAllCheckboxItems ==
    /\ CanCall
    /\ Query("extract_all_checkbox_items", NoArg,
             extract_all_checkbox_items(content))

\* The functions that read the plan, on the plan files and on what is left
\* of them when items are removed.
NextLookup ==
    \/ FindCheckboxLine
    \/ CountCheckboxes
    \/ ExtractAllCheckboxItems
    \/ ExtractPhaseSection
    \/ FindPhaseSection
    \/ RemoveItem

SpecLookup == Init /\ [][NextLookup]_vars

----------------------------------------------------------------------------
(* An item is added and then removed *)

\* remove_item_from_plan on the result of the add_item_to_plan call before
\* it; before stays the plan file as it was before the item was added.
RemoveAdded ==
    /\ CanCall
    /\ op = "add_item_to_plan"
    /\ \E t \in Texts :
           /\ steps' = steps + 1
           /\ op' = "add_then_remove"
           /\ arg' = [item_text |-> arg.item_text, phase |-> arg.phase,
                      pattern |-> t, added |-> content]
           /\ before' = before
           /\ content' = remove_item_from_plan(content, t)
           /\ ret' = content'

NextAddRemove ==
    \/ AddItem
    \/ RemoveAdded

SpecAddRemove == Init /\ [][NextAddRemove]_vars

----------------------------------------------------------------------------
(* The mutations of the plan file, one after the other *)

NextMutate ==
    \/ UpdatePlanCheckbox
    \/ AddItem
    \/ RemoveItem
    \/ RenameItem
    \/ AddPhase

SpecMutate == Init /\ [][NextMutate]_vars

----------------------------------------------------------------------------
(* The validations of the edit mode *)

\* Plan files for the validations: two phases with items; no phase, an
\* indented checked item with upper case and runs of white space, and an item
\* without text; a phase heading that ends with a blank, a heading in lower
\* case that is no phase, an item of several words and a "##" section; the
\* empty file.
ValidationPlans ==
    { <<Phase1, Unchecked \o <<" ", "a">>, Checked \o <<" ", "b">>,
        Phase2, Unchecked \o <<" ", "c">>>>,
      <<<<"t">>, <<" ", " ">> \o Checked \o <<" ", " ", "A", " ", "\t", "b", " ">>,
        Unchecked \o <<" ">>>>,
      <<Phase1 \o <<" ">>, <<"#", "#", "#", " ", "p", "h", "a", "s", "e", " ", "9">>,
        Unchecked \o <<" ", "a", " ", "b", " ", "c">>, <<"#", "#", " ", "N">>>>,
      <<<<>>>> }

\* Phase names to validate: the phase arguments of the edits, the empty name
\* and a name that matches a heading only when the case is ignored.
ValidationPhases ==
    Phases \cup {<<>>, <<"P", "H", "A", "S", "E", " ", "2">>}

\* New item texts: an existing item, one in another case and with other
\* white space, a part of an existing item, an item that holds an existing one,
\* the empty text and a new text.
ValidationItems ==
    {<<"a">>, <<" ", "a", " ", " ", "B", "\n">>, <<"a", " ", "b">>,
     <<"b", " ", "c">>, <<>>, <<"n", "z">>}

InitValidate ==
    /\ content \in {Join(p) : p \in ValidationPlans}
    /\ op = "init"
    /\ arg = NoArg
    /\ before = content
    /\ ret = None
    /\ steps = 0

ValidatePhaseExists ==
    /\ CanCall
    /\ \E ph \in ValidationPhases :
           Query("validate_phase_exists", [NoArg EXCEPT !.phase = ph],
                 validate_phase_exists(content, ph))

ValidateNoDuplicates ==
    /\ CanCall
    /\ \E t \in ValidationItems :
           Query("validate_no_duplicates", [NoArg EXCEPT !.item_text = t],
                 validate_no_duplicates(content, t))

\* The validations, on plan files that items and phases are added to.
NextValidate ==
    \/ ValidatePhaseExists
    \/ ValidateNoDuplicates
    \/ AddItem
    \/ AddPhase

SpecValidate == InitValidate /\ [][NextValidate]_vars

----------------------------------------------------------------------------
(* The fuzzy matching *)

\* Longest str the edit distance is computed on, for every pair of strs.
MaxStrLen == 3

\* The strs over the letters a and b of length n, and up to n.
RECURSIVE StrsOfLen(_)
StrsOfLen(n) ==
    IF n = 0 THEN {<<>>}
    ELSE {Append(s, c) : s \in StrsOfLen(n - 1), c \in {"a", "b"}}

Strs == UNION {StrsOfLen(n) : n \in 0..MaxStrLen}

Kitten == <<"k", "i", "t", "t", "e", "n">>

Sitting == <<"s", "i", "t", "t", "i", "n", "g">>

\* The pairs the distance is computed on.
StrPairs == (Strs \X Strs) \cup {<<Kitten, Sitting>>, <<Sitting, Kitten>>}

\* The targets of a search: the item of the scenario, a short one, the empty
\* one and one of five letters.
Targets == {<<"W", "r", "i", "t", "e", " ", "t", "e", "s", "t">>, <<"a", "b">>, <<>>, <<"a", "b", "c", "d", "e">>}

\* The candidate lists: the items of the scenario; none; items that hold the
\* short target, equal it in another case, or are at a distance from it, with
\* scores that tie; an item at distance 1 of the target of five letters, a
\* long and a short item that hold it.
CandidateLists ==
    { <<<<"W", "r", "i", "t", "e", " ", "t", "e", "s", "t", " ", "f", "i", "l", "e">>,
        <<"R", "u", "n", " ", "t", "e", "s", "t", "s">>,
        <<"D", "e", "p", "l", "o", "y", " ", "a", "p", "p">>>>,
      <<>>,
      <<<<"b">>, <<"x", "a", "b">>, <<"A", "B">>, <<"a">>, <<"a", "b", "x">>,
        <<"a", "b">>, <<>>>>,
      <<<<"a", "b", "X", "c", "d", "e">>, <<"a", "b", "c", "d", "e", "f", "g", "h", "i", "j", "k", "l">>,
        <<"a", "b", "c", "d", "e", "f">>>> }

\* The thresholds: 0.5 of update_plan, the default 0.6, and the ends 0.0 and
\* 1.0.
Thresholds == {<<5, 10>>, <<6, 10>>, <<0, 1>>, One}

\* The arguments of the calls of the fuzzy matching.
DistanceArgs == {[s1 |-> p[1], s2 |-> p[2]] : p \in StrPairs}

SimilarArgs ==
    {[target |-> t, items |-> c, threshold |-> th] :
        t \in Targets, c \in CandidateLists, th \in Thresholds}

\* The functions read no file: a behaviour is one call with its arguments.
InitFuzzy ==
    /\ content = <<>>
    /\ op = "init"
    /\ arg \in DistanceArgs \cup SimilarArgs
    /\ before = content
    /\ ret = None
    /\ steps = 0

\* The call of a function on the arguments of the behaviour.
Compute(name, value) ==
    /\ op = "init"
    /\ steps' = steps + 1
    /\ op' = name
    /\ ret' = value
    /\ UNCHANGED <<content, before, arg>>

CalculateLevenshteinDistance ==
    /\ arg \in DistanceArgs
    /\ Compute("calculate_levenshtein_distance",
               calculate_levenshtein_distance(arg.s1, arg.s2))

FindSimilarItems ==
    /\ arg \in SimilarArgs
    /\ Compute("find_similar_items",
               find_similar_items(arg.target, arg.items, arg.threshold))

NextFuzzy ==
    \/ CalculateLevenshteinDistance
    \/ FindSimilarItems

SpecFuzzy == InitFuzzy /\ [][NextFuzzy]_vars

----------------------------------------------------------------------------
(* run_all_checks of scripts/quality/check.py.  In this part op is the      *)
(* position of run_all_checks, arg the exit codes its three steps return,   *)
(* content the list of the steps started so far and ret the value returned. *)

\* Greatest exit code of a step.
MaxExit == 2

\* The return codes of the tools a step runs: 0, failures, and -1 for a tool
\* that a signal ended.
ExitCodes == (-1)..MaxExit

InitChecks ==
    /\ content = <<>>
    /\ op = "STEP 1/3"
    /\ arg \in [format_code : ExitCodes, lint_code : ExitCodes,
                run_tests : ExitCodes]
    /\ before = <<>>
    /\ ret = None
    /\ steps = 0

\* A step of run_all_checks: the call is made, and its result is returned
\* when it is not 0; otherwise run_all_checks goes on at the position next.
Step(position, call, next) ==
    /\ op = position
    /\ steps' = steps + 1
    /\ content' = Append(content, call)
    /\ IF arg[call] # 0
       THEN /\ op' = "return"
            /\ ret' = arg[call]
       ELSE /\ op' = next
            /\ ret' = IF next = "return" THEN 0 ELSE ret
    /\ UNCHANGED <<arg, before>>

FormatStep == Step("STEP 1/3", "format_code", "STEP 2/3")

\* The linting step without `return result`: the tests run after a failure.
LintStep_goes_on ==
    /\ op = "STEP 2/3"
    /\ steps' = steps + 1
    /\ content' = Append(content, "lint_code")
    /\ op' = "STEP 3/3"
    /\ UNCHANGED <<arg, before, ret>>

LintStep == Step("STEP 2/3", "lint_code", "STEP 3/3")

TestStep == Step("STEP 3/3", "run_tests", "return")

NextChecks ==
    \/ FormatStep
    \/ LintStep
    \/ TestStep

SpecChecks == InitChecks /\ [][NextChecks]_vars

----------------------------------------------------------------------------
(* log_execution of scripts/ai_tools/log_execution.py.  In this part        *)
(* content is the sessions directory: the function from the id of each      *)
(* session to the text of its EXECUTION file, or to None when the session   *)
(* has no such file.  before is the directory before the first call, arg    *)
(* the calls made so far in their order, ret the way the last call ended.   *)

\* sys.exit(status)
SystemExit(status) == <<"SystemExit", status>>

\* The characters of the emojis, each written by its code point: one element
\* of a str, as every other character.
Memo == <<"U+1F4DD">>

Warning == <<"U+26A0", "U+FE0F", " ">>

CrossMark == <<"U+274C">>

CheckMark == <<"U+2705">>

emoji_map == [info |-> Memo, warning |-> Warning, error |-> CrossMark,
              success |-> CheckMark]

\* emoji_map.get(level, memo)
get_emoji_for_level(level) ==
    IF level \in DOMAIN emoji_map THEN emoji_map[level] ELSE Memo

\* The time a session was started at, read from its id.
SessionTime(session_id) ==
    CHOOSE n \in 0..9 : <<"0", "1", "2", "3", "4", "5", "6", "7", "8", "9">>[n + 1]
                            = session_id[1]

\* The id of the most recent session, None when there is no session.
get_current_session(sessions) ==
    IF DOMAIN sessions = {} THEN None
    ELSE CHOOSE s \in DOMAIN sessions :
             \A t \in DOMAIN sessions : SessionTime(t) <= SessionTime(s)

\* The files of a session; the path of the EXECUTION file is written as the
\* id of its session, and is None when the file does not exist.
get_session_files(sessions, session_id) ==
    [execution |-> IF /\ session_id \in DOMAIN sessions
                      /\ sessions[session_id] # None
                   THEN session_id
                   ELSE None]

\* The text is written at the end of the file.
append_to_file(sessions, file_path, text) ==
    [sessions EXCEPT ![file_path] = @ \o text]

\* f"[{timestamp}] {emoji} {message}\n"
log_entry(timestamp, emoji, message) ==
    <<"[">> \o timestamp \o <<"]", " ">> \o emoji \o <<" ">> \o message
        \o <<NL>>

\* log_execution with an exit status 0 where no session is found.
log_execution_exit0(sessions, message, level, session_id, timestamp) ==
    LET sid == IF session_id = None THEN get_current_session(sessions)
               ELSE session_id
        execution_file == get_session_files(sessions, sid).execution
    IN  IF sid = None THEN <<sessions, SystemExit(0)>>
        ELSE IF execution_file = None THEN <<sessions, SystemExit(1)>>
        ELSE <<append_to_file(sessions, execution_file,
                   log_entry(timestamp, get_emoji_for_level(level), message)),
               None>>

\* log_execution: the sessions directory after the call, and the way the
\* call ended: None when it returned, SystemExit(1) when it exited.
log_execution(sessions, message, level, session_id, timestamp) ==
    LET sid == IF session_id = None THEN get_current_session(sessions)
               ELSE session_id
        execution_file == get_session_files(sessions, sid).execution
    IN  IF sid = None THEN <<sessions, SystemExit(1)>>
        ELSE IF execution_file = None THEN <<sessions, SystemExit(1)>>
        ELSE <<append_to_file(sessions, execution_file,
                   log_entry(timestamp, get_emoji_for_level(level), message)),
               None>>

\* The ids of the sessions: strs of digits, a later session having the
\* greater id.
Session1 == <<"1">>

Session2 == <<"2">>

SessionIds == {Session1, Session2}

\* The header of an EXECUTION file, and one that does not end with a newline.
LogHeader == <<"#", " ", "L", "o", "g", NL, NL>>

LogOpen == <<"#", " ", "L", "o", "g", NL, "x">>

\* The sessions directories: empty; one session; two sessions; a session
\* without an EXECUTION file; an older session and a recent one without an
\* EXECUTION file.
SessionDirs ==
    { <<>>,
      (Session1 :> LogHeader),
      (Session1 :> LogOpen) @@ (Session2 :> <<>>),
      (Session1 :> None),
      (Session1 :> LogHeader) @@ (Session2 :> None) }

\* The values of format_timestamp(): YYYY-MM-DD HH:MM:SS of two seconds.
Timestamp(second) ==
    <<"2", "0", "2", "5", "-", "1", "1", "-", "0", "2", " ",
      "1", "5", ":", "0", "0", ":", "0", second>>

Timestamps == {Timestamp("0"), Timestamp("1")}

\* Messages: one line; two lines, the second looking like an entry.
LogMessages == {<<"A">>, <<"B", NL, "[", "]">>}

\* Levels: the default, one with an emoji of several characters, one that
\* emoji_map does not hold.
LogLevels == {"info", "warning", "debug"}

\* The session_id argument: omitted, or the id of a session.
SessionArgs == {None} \cup SessionIds

InitLog ==
    /\ content \in SessionDirs
    /\ op = "init"
    /\ arg = <<>>
    /\ before = content
    /\ ret = None
    /\ steps = 0

LogExecution ==
    /\ CanCall
    /\ \E message \in LogMessages, level \in LogLevels,
          session_id \in SessionArgs, timestamp \in Timestamps :
          LET result == log_execution(content, message, level, session_id,
                                      timestamp)
          IN  /\ content' = result[1]
              /\ ret' = result[2]
              /\ arg' = Append(arg, [message |-> message, level |-> level,
                                     session_id |-> session_id,
                                     timestamp |-> timestamp,
                                     exit |-> result[2]])
    /\ op' = "log_execution"
    /\ steps' = steps + 1
    /\ UNCHANGED before

NextLog == LogExecution

SpecLog == InitLog /\ [][NextLog]_vars

----------------------------------------------------------------------------
(* The update_plan command of scripts/ai_tools/update_plan.py.  In this     *)
(* part content is the plan file of the session: its text, NoSession when   *)
(* no session is found, NoPlanFile when the session has no plan file.  arg  *)
(* is the arguments of the last invocation, before the plan file before it, *)
(* ret what the invocation did.                                             *)

\* get_current_session() returned None.
NoSession == <<"NoSession">>

\* session_files["plan"] is None.
NoPlanFile == <<"NoPlanFile">>

EmptyItemError ==
    <<"Item text cannot be empty or whitespace-only. Please provide meaningful item text.">>

\* validate_item_not_empty
validate_item_not_empty(item_text) ==
    IF item_text = <<>> \/ Strip(item_text) = <<>> THEN EmptyItemError
    ELSE None

\* The truth value of an optional str argument: None and "" are false.
Truthy(value) == value # None /\ value # <<>>

\* The number of suggestions shown.
TopSuggestions == 3

\* suggestions[:3]
Top(suggestions) ==
    SubSeq(suggestions, 1, Min({TopSuggestions, Len(suggestions)}))

\* threshold=0.5
SuggestionThreshold == <<5, 10>>

\* What an invocation did: the plan file after it, its exit status, the
\* texts it wrote to the plan file, the functions of the module it called in
\* their order, the suggestions it printed and the message it logged.
Outcome(plan, status, written, called, suggestions, logged) ==
    [content |-> plan, exit |-> status, written |-> written,
     called |-> called, suggestions |-> suggestions, logged |-> logged]

\* sys.exit(1) at a place where nothing was written.
Exits(plan, called, suggestions) ==
    Outcome(plan, 1, <<>>, called, suggestions, None)

\* plan_file.write_text(new_content), the log entry and the progress report
\* of the edit mode.
WritesEdit(new_content, called, action) ==
    Outcome(new_content, 0, <<new_content>>,
            called \o <<"count_checkboxes">>, <<>>, action)

\* The add operation with the duplicate validation after the mutation: its
\* error is printed and the item is written all the same.
update_plan_add_late(content_, a) ==
    IF validate_item_not_empty(a.add) # None
    THEN Exits(content_, <<"validate_item_not_empty">>, <<>>)
    ELSE IF validate_phase_exists(content_, a.phase) # None
    THEN Exits(content_, <<"validate_item_not_empty", "validate_phase_exists">>,
               <<>>)
    ELSE WritesEdit(add_item_to_plan(content_, a.add, a.phase),
                    <<"validate_item_not_empty", "validate_phase_exists",
                      "add_item_to_plan", "validate_no_duplicates">>,
                    <<"Added item: ", a.add>>
                    \o (IF Truthy(a.phase) THEN <<" to ", a.phase>> ELSE <<>>))

\* The add operation of the edit mode.
update_plan_add(content_, a) ==
    IF validate_item_not_empty(a.add) # None
    THEN Exits(content_, <<"validate_item_not_empty">>, <<>>)
    ELSE IF validate_phase_exists(content_, a.phase) # None
    THEN Exits(content_, <<"validate_item_not_empty", "validate_phase_exists">>,
               <<>>)
    ELSE IF validate_no_duplicates(content_, a.add) # None
    THEN Exits(content_, <<"validate_item_not_empty", "validate_phase_exists",
                           "validate_no_duplicates">>, <<>>)
    ELSE WritesEdit(add_item_to_plan(content_, a.add, a.phase),
                    <<"validate_item_not_empty", "validate_phase_exists",
                      "validate_no_duplicates", "add_item_to_plan">>,
                    <<"Added item: ", a.add>>
                    \o (IF Truthy(a.phase) THEN <<" to ", a.phase>> ELSE <<>>))

\* The rename operation of the edit mode.
update_plan_rename(content_, a) ==
    IF a.to = None THEN Exits(content_, <<>>, <<>>)
    ELSE IF validate_item_not_empty(a.to) # None
    THEN Exits(content_, <<"validate_item_not_empty">>, <<>>)
    ELSE WritesEdit(rename_item_in_plan(content_, a.rename, a.to),
                    <<"validate_item_not_empty", "rename_item_in_plan">>,
                    <<"Renamed item: ", a.rename, " -> ", a.to>>)

\* The edit mode with the branch of remove before the branch of add.
update_plan_edit_remove_first(content_, a) ==
    IF Truthy(a.remove)
    THEN WritesEdit(remove_item_from_plan(content_, a.remove),
                    <<"remove_item_from_plan">>, <<"Removed item: ", a.remove>>)
    ELSE IF Truthy(a.add) THEN update_plan_add(content_, a)
    ELSE IF Truthy(a.rename) THEN update_plan_rename(content_, a)
    ELSE WritesEdit(add_phase_to_plan(content_, a.add_phase, <<>>),
                    <<"add_phase_to_plan">>, <<"Added phase: ", a.add_phase>>)

\* The edit mode: the first of add, remove, rename, add_phase that is true.
update_plan_edit(content_, a) ==
    IF Truthy(a.add) THEN update_plan_add(content_, a)
    ELSE IF Truthy(a.remove)
    THEN WritesEdit(remove_item_from_plan(content_, a.remove),
                    <<"remove_item_from_plan">>, <<"Removed item: ", a.remove>>)
    ELSE IF Truthy(a.rename) THEN update_plan_rename(content_, a)
    ELSE WritesEdit(add_phase_to_plan(content_, a.add_phase, <<>>),
                    <<"add_phase_to_plan">>, <<"Added phase: ", a.add_phase>>)

\* The toggle with `should_check = check`: --uncheck is not looked at.
update_plan_toggle_check(content_, a, result) ==
    LET line_num == result[1]
        old_line == result[2]
        should_check == a.check
        new_line == toggle_checkbox(old_line, should_check)
        new_content == Join([Split(content_) EXCEPT ![line_num + 1] = new_line])
    IN  Outcome(new_content, 0, <<new_content>>,
                <<"find_checkbox_line", "toggle_checkbox", "count_checkboxes",
                  "extract_phase_section">>,
                <<>>,
                <<IF should_check THEN "Checked" ELSE "Unchecked",
                  " plan item: ", a.item>>)

\* The checkbox mode once find_checkbox_line has returned the line: the line
\* is toggled and put back, the file written, the update logged and the
\* phase of the line shown.
update_plan_toggle(content_, a, result) ==
    LET line_num == result[1]
        old_line == result[2]
        should_check == a.check /\ ~a.uncheck
        new_line == toggle_checkbox(old_line, should_check)
        new_content == Join([Split(content_) EXCEPT ![line_num + 1] = new_line])
    IN  Outcome(new_content, 0, <<new_content>>,
                <<"find_checkbox_line", "toggle_checkbox", "count_checkboxes",
                  "extract_phase_section">>,
                <<>>,
                <<IF should_check THEN "Checked" ELSE "Unchecked",
                  " plan item: ", a.item>>)

\* The checkbox mode with every suggestion shown.
update_plan_checkbox_all(content_, a) ==
    IF a.item = None THEN Exits(content_, <<>>, <<>>)
    ELSE LET result == find_checkbox_line(content_, a.item)
         IN  IF result = None
             THEN Exits(content_,
                        <<"find_checkbox_line", "extract_all_checkbox_items",
                          "find_similar_items">>,
                        find_similar_items(
                            a.item, extract_all_checkbox_items(content_),
                            SuggestionThreshold))
             ELSE update_plan_toggle(content_, a, result)

\* The checkbox mode.
update_plan_checkbox(content_, a) ==
    IF a.item = None THEN Exits(content_, <<>>, <<>>)
    ELSE LET result == find_checkbox_line(content_, a.item)
         IN  IF result = None
             THEN Exits(content_,
                        <<"find_checkbox_line", "extract_all_checkbox_items",
                          "find_similar_items">>,
                        Top(find_similar_items(
                                a.item, extract_all_checkbox_items(content_),
                                SuggestionThreshold)))
             ELSE update_plan_toggle(content_, a, result)

\* update_plan on the plan file plan with the arguments a.
update_plan(plan, a) ==
    IF plan = NoSession THEN Exits(plan, <<>>, <<>>)
    ELSE IF plan = NoPlanFile THEN Exits(plan, <<>>, <<>>)
    ELSE IF a.show
    THEN Outcome(plan, 0, <<>>, <<"count_checkboxes">>, <<>>, None)
    ELSE IF Truthy(a.add) \/ Truthy(a.remove) \/ Truthy(a.rename)
            \/ Truthy(a.add_phase)
    THEN update_plan_edit(plan, a)
    ELSE update_plan_checkbox(plan, a)

\* The arguments of update_plan at their defaults.
NoCmd == [item |-> None, check |-> TRUE, uncheck |-> FALSE, show |-> FALSE,
          add |-> None, remove |-> None, rename |-> None, to |-> None,
          add_phase |-> None, phase |-> None]

\* The item argument: omitted, empty, or a text.
ItemArgs == {None, <<>>} \cup Texts

\* The text of --add: texts, white space only, empty, omitted, and a text of
\* two lines.
AddArgs == NewTexts \cup {None, <<>>, <<" ">>, <<"a", NL, "b">>}

\* The name of --phase: those of the edits and the empty name.
PhaseArgs == Phases \cup {<<>>}

\* Invocations of the checkbox mode, with and without --show.
CheckboxCmds ==
    {[NoCmd EXCEPT !.item = t, !.check = f[1], !.uncheck = f[2], !.show = s] :
        t \in ItemArgs, f \in Flags, s \in BOOLEAN}

\* Invocations with --add and --phase, with and without an item.
AddCmds ==
    {[NoCmd EXCEPT !.add = t, !.phase = p, !.item = i] :
        t \in AddArgs, p \in PhaseArgs, i \in {None, <<"a">>}}

\* Invocations with any of the edit arguments together.
EditCmds ==
    {[NoCmd EXCEPT !.add = ad, !.remove = rm, !.rename = rn, !.to = n,
                   !.add_phase = ph, !.item = i, !.show = s] :
        ad \in {None, <<"n", "z">>}, rm \in {None, <<>>, <<"a">>},
        rn \in {None, <<"a">>}, n \in {None, <<" ">>, <<"n", "z">>},
        ph \in {None, <<"Q">>}, i \in {None, <<"a">>}, s \in BOOLEAN}

Commands == CheckboxCmds \cup AddCmds \cup EditCmds

\* A plan whose items are near the text "nz" without holding it: four of
\* them reach the threshold of the suggestions, two do not.
SuggestionPlan ==
    <<Phase1, Unchecked \o <<" ", "q", "q", "q">>, Unchecked \o <<" ", "n", "x">>,
      Checked \o <<" ", "z">>, Unchecked \o <<" ", "x", "z">>,
      Unchecked \o <<" ", "n", "x", "z">>, Unchecked \o <<" ", "z", "n", "n">>>>

\* The plan file of the session: a text, or none.
SessionPlans ==
    {Join(p) : p \in InitialPlans \cup {SuggestionPlan}}
        \cup {NoSession, NoPlanFile}

InitUpdatePlan ==
    /\ content \in SessionPlans
    /\ op = "init"
    /\ arg = NoCmd
    /\ before = content
    /\ ret = None
    /\ steps = 0

\* An invocation of update_plan with the arguments a.
Invoke(a) ==
    LET outcome == update_plan(content, a)
    IN  /\ content' = outcome.content
        /\ before' = content
        /\ ret' = outcome
        /\ arg' = a
        /\ op' = "update_plan"
        /\ steps' = steps + 1

\* One invocation on each plan file.
UpdatePlan ==
    /\ op = "init"
    /\ \E a \in Commands : Invoke(a)

NextUpdatePlan == UpdatePlan

SpecUpdatePlan == InitUpdatePlan /\ [][NextUpdatePlan]_vars

----------------------------------------------------------------------------
(* Invocations of the checkbox mode one after the other.  After the         *)
(* repetition of an invocation before is the plan file before the first of  *)
(* the two.                                                                 *)

\* A plan with two checked items, neither of which holds an "x" in its text.
TwoChecked ==
    <<Phase1, Checked \o <<" ", "a">>, Checked \o <<" ", "b">>,
      Unchecked \o <<" ", "c">>>>

CheckboxPlans == {Join(p) : p \in InitialPlans \cup {TwoChecked}}

\* Invocations with an item and the check and uncheck flags.
ToggleCmds ==
    {[NoCmd EXCEPT !.item = t, !.check = f[1], !.uncheck = f[2]] :
        t \in Texts, f \in Flags}

InitCheckbox ==
    /\ content \in CheckboxPlans
    /\ op = "init"
    /\ arg = NoCmd
    /\ before = content
    /\ ret = None
    /\ steps = 0

ToggleItem ==
    /\ CanCall
    /\ \E a \in ToggleCmds : Invoke(a)

\* The invocation that has just toggled a line is made once more.
Repeat ==
    /\ CanCall
    /\ op = "update_plan"
    /\ ret.exit = 0
    /\ LET outcome == update_plan(content, arg)
       IN  /\ content' = outcome.content
           /\ ret' = outcome
    /\ op' = "update_plan_again"
    /\ steps' = steps + 1
    /\ UNCHANGED <<arg, before>>

NextCheckbox == ToggleItem \/ Repeat

SpecCheckbox == InitCheckbox /\ [][NextCheckbox]_vars

----------------------------------------------------------------------------
(* Two invocations of update_plan on one plan file at the same time.  Each  *)
(* is a process of its own; no lock is taken.  An invocation reads the file *)
(* (plan_file.read_text()), computes, and writes it                         *)
(* (plan_file.write_text(new_content)): the file is opened for writing,     *)
(* which empties it, and the text is then written from the start of the     *)
(* file.  In this part content is the plan file, before the plan file at    *)
(* the start, arg the arguments of each process, ret the position of each   *)
(* process with the text it read and what it computed, op the last step.    *)

Procs == {1, 2}

\* The invocations that race: a toggle, an add of an item, a remove, an add
\* of a phase, and a toggle of an item that is not there.
RaceCmds ==
    {[NoCmd EXCEPT !.item = <<"a">>],
     [NoCmd EXCEPT !.add = <<"n", "z">>],
     [NoCmd EXCEPT !.remove = <<"a">>],
     [NoCmd EXCEPT !.add_phase = <<"Q">>],
     [NoCmd EXCEPT !.item = <<"n", "z">>]}

RacePlans ==
    {Join(<<Phase1, Unchecked \o <<" ", "a">>, Checked \o <<" ", "b">>>>),
     Join(<<Unchecked \o <<" ", "a">>>>)}

\* A write at the end of the file, as in append mode.
WriteAtStart_append(file, text) == file \o text

\* write() of the text at offset 0 of a file: what the file held past the
\* end of the text stays.
WriteAtStart(file, text) == text \o SubSeq(file, Len(text) + 1, Len(file))

InitRace ==
    /\ content \in RacePlans
    /\ op = "init"
    /\ arg \in [Procs -> RaceCmds]
    /\ before = content
    /\ ret = [p \in Procs |-> [pc |-> "read", read |-> None, outcome |-> None,
                               wrote_at |-> 0]]
    /\ steps = 0

\* content = plan_file.read_text(), and all that is computed from it up to
\* the write or the exit.
ReadPlan(p) ==
    /\ ret[p].pc = "read"
    /\ LET outcome == update_plan(content, arg[p])
       IN  ret' = [ret EXCEPT ![p] =
                      [@ EXCEPT !.read = content, !.outcome = outcome,
                                !.pc = IF outcome.written = <<>> THEN "done"
                                       ELSE "open"]]
    /\ op' = "read"
    /\ steps' = steps + 1
    /\ UNCHANGED <<content, arg, before>>

\* write_text opens the plan file for writing: the file is empty.
OpenPlan(p) ==
    /\ ret[p].pc = "open"
    /\ content' = <<>>
    /\ ret' = [ret EXCEPT ![p].pc = "write"]
    /\ op' = "open"
    /\ steps' = steps + 1
    /\ UNCHANGED <<arg, before>>

\* write_text writes the text and closes the file; the invocation logs,
\* reports and returns.
WritePlan(p) ==
    /\ ret[p].pc = "write"
    /\ content' = WriteAtStart(content, ret[p].outcome.written[1])
    /\ ret' = [ret EXCEPT ![p].pc = "done", ![p].wrote_at = steps + 1]
    /\ op' = "write"
    /\ steps' = steps + 1
    /\ UNCHANGED <<arg, before>>

NextRace == \E p \in Procs : ReadPlan(p) \/ OpenPlan(p) \/ WritePlan(p)

SpecRace == InitRace /\ [][NextRace]_vars

----------------------------------------------------------------------------
(* The phase of an add: the lookup of validate_phase_exists, the lookup of  *)
(* add_item_to_plan, and the add of update_plan that runs the one before    *)
(* the other.                                                               *)

\* Adds of update_plan with each phase name of the validations.
PhaseAddCmds ==
    {[NoCmd EXCEPT !.add = <<"n", "z">>, !.phase = ph] : ph \in ValidationPhases}

AddItemToPhase ==
    /\ CanCall
    /\ \E t \in NewTexts, ph \in ValidationPhases :
           Edit("add_item_to_plan", [NoArg EXCEPT !.item_text = t, !.phase = ph],
                add_item_to_plan(content, t, ph))

InvokeAdd ==
    /\ CanCall
    /\ \E a \in PhaseAddCmds : Invoke(a)

NextPhaseLookup == AddItemToPhase \/ InvokeAdd

SpecPhaseLookup == InitValidate /\ [][NextPhaseLookup]_vars

----------------------------------------------------------------------------
(* Adds one after the other.  A call of add_item_to_plan is made on the     *)
(* plan of the start.  In a sequence of adds of update_plan, arg is the     *)
(* list of the invocations made so far, each with its exit status, and      *)
(* before the plan file before the first of them.                           *)

\* Texts to add: a new one; the same in another case, inside white space;
\* one of two words; the same with other white space between them; one of
\* two lines; one that ends with a line break.
DupTexts ==
    {<<"n", "z">>, <<" ", "N", "Z", " ">>, <<"n", " ", "z">>,
     <<"n", " ", "\t", "Z">>, <<"a", NL, "b">>, <<"q", NL>>}

AddItemText ==
    /\ op = "init"
    /\ \E t \in DupTexts, ph \in Phases :
           Edit("add_item_to_plan", [NoArg EXCEPT !.item_text = t, !.phase = ph],
                add_item_to_plan(content, t, ph))

AddCommand ==
    /\ CanCall
    /\ op = "init" \/ op = "update_plan"
    /\ \E t \in DupTexts, ph \in {None, <<"1">>} :
           LET a == [NoCmd EXCEPT !.add = t, !.phase = ph]
               outcome == update_plan(content, a)
           IN  /\ content' = outcome.content
               /\ ret' = outcome
               /\ arg' = (IF op = "init" THEN <<>> ELSE arg)
                             \o <<[cmd |-> a, exit |-> outcome.exit]>>
    /\ op' = "update_plan"
    /\ steps' = steps + 1
    /\ UNCHANGED before

NextAdds == AddItemText \/ AddCommand

SpecAdds == InitValidate /\ [][NextAdds]_vars

----------------------------------------------------------------------------
(* A phase is added and then addressed.  add_phase_to_plan is called on the *)
(* plan of the start without items; validate_phase_exists and               *)
(* add_item_to_plan are then called on its result with the same name.       *)
(* before stays the plan before the phase was added.                        *)

\* Names of new phases: the form of the docstring ("Phase 3: Deployment"),
\* names that do not begin with "Phase", one in lower case, one that a
\* heading of the plan holds already, and the word "Phase" alone.
NewPhaseNames ==
    {<<"P", "h", "a", "s", "e", " ", "9">>, <<"Q">>, <<"D">>,
     <<"p", "h", "a", "s", "e", " ", "9">>,
     <<"P", "h", "a", "s", "e", " ", "1">>, <<"P", "h", "a", "s", "e">>}

AddNamedPhase ==
    /\ op = "init"
    /\ \E n \in NewPhaseNames :
           Edit("add_phase_to_plan", [NoArg EXCEPT !.phase = n],
                add_phase_to_plan(content, n, <<>>))

ValidateAdded ==
    /\ CanCall
    /\ op = "add_phase_to_plan"
    /\ steps' = steps + 1
    /\ op' = "phase_then_validate"
    /\ arg' = [name |-> arg.phase, item_text |-> None, added |-> content]
    /\ ret' = validate_phase_exists(content, arg.phase)
    /\ UNCHANGED <<content, before>>

AddToAdded ==
    /\ CanCall
    /\ op = "add_phase_to_plan"
    /\ \E t \in NewTexts :
           /\ arg' = [name |-> arg.phase, item_text |-> t, added |-> content]
           /\ content' = add_item_to_plan(content, t, arg.phase)
           /\ ret' = content'
    /\ steps' = steps + 1
    /\ op' = "phase_then_add"
    /\ UNCHANGED before

NextNewPhase == AddNamedPhase \/ ValidateAdded \/ AddToAdded

SpecNewPhase == Init /\ [][NextNewPhase]_vars

----------------------------------------------------------------------------
(* The template copy, template/scripts/ai_tools/update_plan.py: the four    *)
(* functions of the checkbox mode and an update_plan that has no edit       *)
(* arguments.  Each call is made on both copies with the same arguments;    *)
(* ret holds the two results and content what the template copy leaves.     *)

\* find_checkbox_line with `item_lower in line`: the case of the line counts.
RECURSIVE template_find_loop_cs(_, _, _)
template_find_loop_cs(lines, i, item_lower) ==
    IF i >= Len(lines) THEN None
    ELSE IF CheckboxMatch(At(lines, i)) # 0
            /\ Contains(At(lines, i), item_lower)
         THEN <<i, At(lines, i)>>
         ELSE template_find_loop_cs(lines, i + 1, item_lower)

\* `for i, line in enumerate(lines)` of find_checkbox_line from line i on.
RECURSIVE template_find_loop(_, _, _)
template_find_loop(lines, i, item_lower) ==
    IF i >= Len(lines) THEN None
    ELSE IF CheckboxMatch(At(lines, i)) # 0
            /\ Contains(Lower(At(lines, i)), item_lower)
         THEN <<i, At(lines, i)>>
         ELSE template_find_loop(lines, i + 1, item_lower)

template_find_checkbox_line(content_, item_text) ==
    template_find_loop(Split(content_), 0, Lower(item_text))

\* re.sub(r"\[([ x])\]", checkbox, line, count=1): the line up to the first
\* marker from position i on, the checkbox, and the rest of the line.
RECURSIVE template_sub_first(_, _, _)
template_sub_first(line, i, checkbox) ==
    IF i + 2 > Len(line) THEN line
    ELSE IF line[i] = "[" /\ line[i + 1] \in {" ", "x"} /\ line[i + 2] = "]"
         THEN SubSeq(line, 1, i - 1) \o checkbox \o SubSeq(line, i + 3, Len(line))
         ELSE template_sub_first(line, i + 1, checkbox)

template_toggle_checkbox(line, check) ==
    template_sub_first(line, 1,
                       IF check THEN <<"[", "x", "]">> ELSE <<"[", " ", "]">>)

\* (checked, total): the lines the pattern matches, and those of them whose
\* group(1) is "x".
template_count_checkboxes(content_) ==
    LET lines == Split(content_)
        boxes == {i \in Indices(lines) : CheckboxMatch(At(lines, i)) # 0}
    IN  <<Cardinality({i \in boxes : MarkerChar(At(lines, i)) = "x"}),
          Cardinality(boxes)>>

\* `for i in range(line_num, -1, -1)`: the phase header at or before line i,
\* 0 when the loop ends without a break.
RECURSIVE template_phase_start(_, _)
template_phase_start(lines, i) ==
    IF i < 0 THEN 0
    ELSE IF StartsWith(At(lines, i), PhasePrefix) THEN i
         ELSE template_phase_start(lines, i - 1)

\* `for i in range(line_num + 1, len(lines))`: the next "###" line from line
\* i on, len(lines) when there is none.
RECURSIVE template_phase_end(_, _)
template_phase_end(lines, i) ==
    IF i >= Len(lines) THEN Len(lines)
    ELSE IF StartsWith(At(lines, i), H3Prefix) THEN i
         ELSE template_phase_end(lines, i + 1)

\* lines[line_num] raises IndexError when line_num is len(lines) or more.
template_extract_phase_section(content_, line_num) ==
    LET lines == Split(content_)
    IN  IF line_num >= Len(lines) THEN IndexError
        ELSE Join(Slice(lines, template_phase_start(lines, line_num),
                        template_phase_end(lines, line_num + 1)))

\* update_plan of the template copy on the plan file plan.
template_update_plan(plan, a) ==
    IF plan = NoSession THEN Exits(plan, <<>>, <<>>)
    ELSE IF plan = NoPlanFile THEN Exits(plan, <<>>, <<>>)
    ELSE IF a.show
    THEN Outcome(plan, 0, <<>>, <<"count_checkboxes">>, <<>>, None)
    ELSE IF a.item = None THEN Exits(plan, <<>>, <<>>)
    ELSE LET result == template_find_checkbox_line(plan, a.item)
         IN  IF result = None
             THEN Exits(plan, <<"find_checkbox_line">>, <<>>)
             ELSE LET line_num == result[1]
                      old_line == result[2]
                      should_check == a.check /\ ~a.uncheck
                      new_line == template_toggle_checkbox(old_line, should_check)
                      new_content ==
                          Join([Split(plan) EXCEPT ![line_num + 1] = new_line])
                  IN  Outcome(new_content, 0, <<new_content>>,
                              <<"find_checkbox_line", "toggle_checkbox",
                                "count_checkboxes", "extract_phase_section">>,
                              <<>>,
                              <<IF should_check THEN "Checked" ELSE "Unchecked",
                                " plan item: ", a.item>>)

\* The results of one call on the two copies.
Both(template_result, current_result) ==
    [template |-> template_result, current |-> current_result]

\* An invocation of the checkbox mode on the two copies, each on the plan
\* file as it is.
BothUpdatePlan ==
    /\ CanCall
    /\ \E a \in CheckboxCmds :
           LET outcome == template_update_plan(content, a)
           IN  /\ content' = outcome.content
               /\ ret' = Both(outcome, update_plan(content, a))
               /\ arg' = a
    /\ op' = "update_plan"
    /\ before' = content
    /\ steps' = steps + 1

\* A call that reads the plan file, on the two copies.
BothQuery(name, a, template_result, current_result) ==
    /\ content \notin {NoSession, NoPlanFile}
    /\ steps' = steps + 1
    /\ op' = name
    /\ arg' = a
    /\ before' = content
    /\ ret' = Both(template_result, current_result)
    /\ UNCHANGED content

BothFindCheckboxLine ==
    /\ CanCall
    /\ \E t \in Texts \cup {<<>>} :
           BothQuery("find_checkbox_line", [NoArg EXCEPT !.item_text = t],
                     template_find_checkbox_line(content, t),
                     find_checkbox_line(content, t))

BothToggleCheckbox ==
    /\ CanCall
    /\ \E i \in Indices(Split(content)), c \in BOOLEAN :
           LET line == At(Split(content), i)
           IN  BothQuery("toggle_checkbox",
                         [NoArg EXCEPT !.line = line, !.check = c],
                         template_toggle_checkbox(line, c),
                         toggle_checkbox(line, c))

BothCountCheckboxes ==
    /\ CanCall
    /\ BothQuery("count_checkboxes", NoArg,
                 template_count_checkboxes(content), count_checkboxes(content))

BothExtractPhaseSection ==
    /\ CanCall
    /\ \E n \in 0..Len(Split(content)) :
           BothQuery("extract_phase_section", [NoArg EXCEPT !.line_num = n],
                     template_extract_phase_section(content, n),
                     extract_phase_section(content, n))

NextTemplate ==
    \/ BothUpdatePlan
    \/ BothFindCheckboxLine
    \/ BothToggleCheckbox
    \/ BothCountCheckboxes
    \/ BothExtractPhaseSection

SpecTemplate == InitUpdatePlan /\ [][NextTemplate]_vars

----------------------------------------------------------------------------
(* Properties.  lines0 is the plan file before the last call, lines1 after. *)

lines0 == Split(before)

lines1 == Split(content)

IsCheckboxLine(line) == CheckboxMatch(line) # 0

\* The checkbox lines whose whole line holds the text, in any case.
LineHits(lines, text) ==
    {i \in Indices(lines) :
        IsCheckboxLine(At(lines, i)) /\ Contains(Lower(At(lines, i)), Lower(text))}

\* The checkbox lines whose item text holds the text, in any case.
ItemHits(lines, text) ==
    {i \in Indices(lines) :
        IsCheckboxLine(At(lines, i))
        /\ Contains(Lower(ItemText(At(lines, i))), Lower(text))}

\* The list new is the list old with the one line x put in at index k.
InsertedAt(old, new, k, x) ==
    /\ Len(new) = Len(old) + 1
    /\ At(new, k) = x
    /\ \A j \in Indices(old) : At(old, j) = At(new, IF j < k THEN j ELSE j + 1)

\* The list new is the list old without the line at index k.
RemovedAt(old, new, k) ==
    /\ Len(new) = Len(old) - 1
    /\ \A j \in Indices(new) : At(new, j) = At(old, IF j < k THEN j ELSE j + 1)

\* C1 as stated: for any checkbox line, checked or not, unchecking the result
\* of checking it gives the line back: the original marker state and every
\* other character.
C1_ToggleRestoresLine ==
    (op = "toggle_checkbox" /\ arg.check /\ IsCheckboxLine(arg.line))
        => toggle_checkbox(ret, FALSE) = arg.line

\* C1 amended: for any checkbox line, unchecking the result of checking it
\* gives the line with the marker `[ ]` and every other character unchanged;
\* this is the original line exactly when the line was unchecked.
C1_ToggleLeavesUnchecked ==
    (op = "toggle_checkbox" /\ arg.check /\ IsCheckboxLine(arg.line))
        => LET line == arg.line
               k == CheckboxMatch(line) - 1
               r == toggle_checkbox(ret, FALSE)
           IN  /\ Len(r) = Len(line)
               /\ r[k] = " "
               /\ ret[k] = "x"
               /\ \A i \in 1..Len(line) : i # k => r[i] = line[i] /\ ret[i] = line[i]
               /\ (r = line) <=> (line[k] = " ")

\* A checked line whose item text holds a second marker has been checked.
C1_Witness ==
    /\ op = "toggle_checkbox"
    /\ arg.check
    /\ IsCheckboxLine(arg.line)
    /\ MarkerChar(arg.line) = "x"
    /\ FirstMarker(ItemText(arg.line)) # 0

\* C2 as stated: find_checkbox_line returns the first checkbox line whose
\* item text holds the query in any case, with its index, and None when
\* there is none.
C2_FindByItemText ==
    LET l0 == lines0
        l1 == lines1
    IN
    op = "find_checkbox_line"
        => LET hits == ItemHits(l0, arg.item_text)
           IN  IF hits = {} THEN ret = None
               ELSE ret = <<Min(hits), At(l0, Min(hits))>>

\* C2 amended: find_checkbox_line returns (index, line) of the first checkbox
\* line whose whole line, indentation and marker included, holds the query in
\* any case; None exactly when no checkbox line does; never a line that is no
\* checkbox line, never a later one when an earlier one qualifies.
C2_FindByWholeLine ==
    LET l0 == lines0
        l1 == lines1
    IN
    op = "find_checkbox_line"
        => LET hits == LineHits(l0, arg.item_text)
           IN  /\ (ret = None) <=> (hits = {})
               /\ ret # None =>
                      /\ ret[1] \in hits
                      /\ ret[2] = At(l0, ret[1])
                      /\ IsCheckboxLine(ret[2])
                      /\ \A j \in hits : ret[1] <= j

\* A line was found, a later checkbox line holds the query too, and an
\* earlier line that is no checkbox line holds it as well.
C2_Witness ==
    LET l0 == lines0
        l1 == lines1
    IN
    /\ op = "find_checkbox_line"
    /\ ret # None
    /\ \E j \in LineHits(l0, arg.item_text) : j > ret[1]
    /\ \E j \in 0..(ret[1] - 1) :
           /\ ~IsCheckboxLine(At(l0, j))
           /\ Contains(Lower(At(l0, j)), Lower(arg.item_text))

\* The "### Phase" headings that hold the name, in any case.
PhaseHeads(lines, name) ==
    {i \in Indices(lines) :
        StartsWith(At(lines, i), PhasePrefix)
        /\ Contains(Lower(At(lines, i)), Lower(name))}

\* The first index after h of a line that satisfies Ends, len(lines) if none.
SectionEnd(lines, h, Ends(_)) ==
    LET ends == {i \in (h + 1)..(Len(lines) - 1) : Ends(At(lines, i))}
    IN  IF ends = {} THEN Len(lines) ELSE Min(ends)

\* A line that starts with "###", or a "##"-level heading.
EndsAtH3OrH2(line) == StartsWith(line, H3Prefix) \/ IsTopLevelHeading(line)

\* A "###" heading that is no "#### " sub-heading, or a "##"-level heading.
EndsPhase(line) ==
    \/ StartsWith(line, H3Prefix) /\ ~StartsWith(line, H4Prefix)
    \/ IsTopLevelHeading(line)

\* C3: in every document the calls produce, count_checkboxes gives
\* (checked, total) with checked <= total, total the number of lines that
\* match the checkbox pattern and checked the number of those marked `[x]`.
C3_CountInvariant ==
    LET c == count_checkboxes(content)
        lines == Split(content)
        boxes == {i \in Indices(lines) : IsCheckboxLine(At(lines, i))}
        done == {i \in boxes : At(lines, i)[CheckboxMatch(At(lines, i)) - 1] = "x"}
    IN  /\ c[1] <= c[2]
        /\ c[2] = Cardinality(boxes)
        /\ c[1] = Cardinality(done)
        /\ op = "count_checkboxes" => ret = c

\* count_checkboxes has counted a document an earlier call changed, with
\* checked and unchecked items.
C3_Witness ==
    /\ op = "count_checkboxes"
    /\ steps > 1
    /\ content \notin {Join(p) : p \in InitialPlans}
    /\ 0 < ret[1]
    /\ ret[1] < ret[2]

\* C4 as stated: the section of a phase, found by name or by line index, runs
\* from its "### Phase" heading to the next line that starts with "###" or
\* the next "##"-level heading, whichever comes first, or the end.
C4_SectionEndsAtH3OrH2 ==
    LET l0 == lines0
        l1 == lines1
    IN
    /\ (op = "find_phase_section" /\ PhaseHeads(l0, arg.phase) # {})
           => LET s == Min(PhaseHeads(l0, arg.phase))
              IN  ret = Join(Slice(l0, s, SectionEnd(l0, s, EndsAtH3OrH2)))
    /\ (/\ op = "extract_phase_section"
        /\ arg.line_num < Len(l0)
        /\ PhaseHeads(l0, <<>>) \cap 0..arg.line_num # {})
           => LET s == Max(PhaseHeads(l0, <<>>) \cap 0..arg.line_num)
              IN  ret = Join(Slice(l0, s, SectionEnd(l0, s, EndsAtH3OrH2)))

\* C4 amended: find_phase_section returns the lines from the first
\* "### Phase" heading that holds the name up to, not including, the next
\* line after it that starts with "###", or the end of the document, and the
\* empty string when no heading holds the name; extract_phase_section returns
\* the lines from the nearest "### Phase" heading at or before the line index
\* (line 0 if there is none) up to, not including, the first line after the
\* index that starts with "###", or the end.  Only a line that starts with
\* "###" ends a section: a "##"-level heading does not, nor does an item
\* whose text holds "###".
C4_SectionEndsAtH3 ==
    LET l0 == lines0
        l1 == lines1
    IN
    /\ op = "find_phase_section" =>
           LET heads == PhaseHeads(l0, arg.phase)
           IN  /\ (ret = <<>>) <=> (heads = {})
               /\ heads # {} =>
                      \E e \in (Min(heads) + 1)..Len(l0) :
                          /\ ret = Join(Slice(l0, Min(heads), e))
                          /\ e = Len(l0) \/ StartsWith(At(l0, e), H3Prefix)
                          /\ \A j \in (Min(heads) + 1)..(e - 1) :
                                 ~StartsWith(At(l0, j), H3Prefix)
    /\ (op = "extract_phase_section" /\ arg.line_num < Len(l0)) =>
           LET n == arg.line_num
               heads == PhaseHeads(l0, <<>>) \cap 0..n
           IN  \E s \in 0..n, e \in (n + 1)..Len(l0) :
                   /\ ret = Join(Slice(l0, s, e))
                   /\ IF heads = {} THEN s = 0 ELSE s = Max(heads)
                   /\ e = Len(l0) \/ StartsWith(At(l0, e), H3Prefix)
                   /\ \A j \in (n + 1)..(e - 1) :
                          ~StartsWith(At(l0, j), H3Prefix)

\* A phase was found by name and its section holds a "##"-level heading.
C4_Witness ==
    /\ op = "find_phase_section"
    /\ ret # <<>>
    /\ \E i \in Indices(Split(ret)) : IsTopLevelHeading(At(Split(ret), i))

\* C5: with a phase name that a "### Phase" heading holds, add_item_to_plan
\* puts exactly one line `- [ ] <text>` right after the last checkbox line of
\* the first such phase's section, or right after the heading when the
\* section has none; the section ends at the next "###" heading or "##"
\* heading, and not at a "#### " sub-heading.
C5_AddToNamedPhase ==
    LET l0 == lines0
        l1 == lines1
    IN
    (/\ op = "add_item_to_plan"
     /\ arg.phase # None
     /\ PhaseHeads(l0, arg.phase) # {})
        => LET h == Min(PhaseHeads(l0, arg.phase))
               e == SectionEnd(l0, h, EndsPhase)
               boxes == {i \in (h + 1)..(e - 1) : IsCheckboxLine(At(l0, i))}
               k == IF boxes = {} THEN h + 1 ELSE Max(boxes) + 1
           IN  InsertedAt(l0, l1, k, NewItemLine(arg.item_text))

\* An item was added to a named phase after a "#### " sub-heading of it.
C5_Witness ==
    LET l0 == lines0
        l1 == lines1
    IN
    /\ op = "add_item_to_plan"
    /\ arg.phase # None
    /\ PhaseHeads(l0, arg.phase) # {}
    /\ \E k \in Indices(l1) :
           /\ InsertedAt(l0, l1, k, NewItemLine(arg.item_text))
           /\ \E j \in (Min(PhaseHeads(l0, arg.phase)) + 1)..(k - 1) :
                  StartsWith(At(l0, j), H4Prefix)

\* C6: with a phase name that no "### Phase" heading holds, add_item_to_plan
\* puts a blank line and then `- [ ] <text>` right before the first line that
\* starts with "##" and not with "###", or at the end when there is none;
\* the other lines keep their content and order.
C6_AddToUnknownPhase ==
    LET l0 == lines0
        l1 == lines1
    IN
    (/\ op = "add_item_to_plan"
     /\ arg.phase # None
     /\ PhaseHeads(l0, arg.phase) = {})
        => LET tops == {i \in Indices(l0) : IsTopLevelHeading(At(l0, i))}
               k == IF tops = {} THEN Len(l0) ELSE Min(tops)
           IN  /\ Len(l1) = Len(l0) + 2
               /\ At(l1, k) = <<>>
               /\ At(l1, k + 1) = NewItemLine(arg.item_text)
               /\ \A j \in Indices(l0) :
                      At(l0, j) = At(l1, IF j < k THEN j ELSE j + 2)

\* An item was added for an unknown phase to a plan that has a phase and,
\* after it, a "##"-level heading.
C6_Witness ==
    LET l0 == lines0
        l1 == lines1
    IN
    /\ op = "add_item_to_plan"
    /\ arg.phase # None
    /\ PhaseHeads(l0, arg.phase) = {}
    /\ PhaseHeads(l0, <<>>) # {}
    /\ \E i \in Indices(l0) : i > 0 /\ IsTopLevelHeading(At(l0, i))

C8_OmittedPhaseIsLastPhase ==
    LET l0 == lines0
        l1 == lines1
    IN
    (/\ op = "add_item_to_plan"
     /\ arg.phase = None
     /\ PhaseHeads(l0, <<>>) # {})
        => LET h == Max(PhaseHeads(l0, <<>>))
           IN  \E k \in (h + 1)..SectionEnd(l0, h, EndsPhase) :
                   InsertedAt(l0, l1, k, NewItemLine(arg.item_text))

\* C9 as stated: remove_item_from_plan removes the first checkbox line whose
\* item text holds the pattern in any case, and nothing else; the content is
\* unchanged when there is none.
C9_RemoveByItemText ==
    LET l0 == lines0
        l1 == lines1
    IN
    op = "remove_item_from_plan"
        => LET hits == ItemHits(l0, arg.item_text)
           IN  IF hits = {} THEN content = before ELSE RemovedAt(l0, l1, Min(hits))

\* C9 amended: remove_item_from_plan removes the first checkbox line whose
\* whole line, indentation and marker included, holds the pattern in any
\* case, and nothing else: at most one line per call, never a line that is no
\* checkbox line, and the content is unchanged when no checkbox line holds
\* the pattern.
C9_RemoveByWholeLine ==
    LET l0 == lines0
        l1 == lines1
    IN
    op = "remove_item_from_plan"
        => LET hits == LineHits(l0, arg.item_text)
           IN  /\ hits = {} => content = before
               /\ hits # {} =>
                      /\ RemovedAt(l0, l1, Min(hits))
                      /\ IsCheckboxLine(At(l0, Min(hits)))
               /\ Len(l1) >= Len(l0) - 1

\* A line was removed from a plan in which several checkbox lines hold the
\* pattern, after a line that is no checkbox line and holds it too.
C9_Witness ==
    LET l0 == lines0
        l1 == lines1
    IN
    /\ op = "remove_item_from_plan"
    /\ Cardinality(LineHits(l0, arg.item_text)) > 1
    /\ \E j \in 0..(Min(LineHits(l0, arg.item_text)) - 1) :
           Contains(Lower(At(l0, j)), Lower(arg.item_text))

\* C10: rename_item_in_plan changes only the first checkbox line whose whole
\* line holds old in any case: its indentation and marker stay as they are,
\* its item text becomes new, every other line and the number of lines are
\* unchanged; the content is unchanged when no checkbox line holds old.
C10_RenameKeepsMarker ==
    LET l0 == lines0
        l1 == lines1
    IN
    op = "rename_item_in_plan"
        => LET hits == LineHits(l0, arg.item_text)
           IN  /\ hits = {} => content = before
               /\ hits # {} =>
                      LET i == Min(hits)
                          old == At(l0, i)
                          new == At(l1, i)
                          m == CheckboxMatch(old)
                      IN  /\ Len(l1) = Len(l0)
                          /\ \A j \in Indices(l0) :
                                 j # i => At(l1, j) = At(l0, j)
                          /\ SubSeq(new, 1, m) = SubSeq(old, 1, m)
                          /\ CheckboxMatch(new) = m
                          /\ new[m - 1] = old[m - 1]
                          /\ SubSeq(new, m + 1, Len(new)) = <<" ">> \o arg.new_text
                          /\ ItemText(new) = arg.new_text

\* An indented, checked item that is not the first line to hold a checkbox
\* was renamed.
C10_Witness ==
    LET l0 == lines0
        l1 == lines1
    IN
    /\ op = "rename_item_in_plan"
    /\ LineHits(l0, arg.item_text) # {}
    /\ LET i == Min(LineHits(l0, arg.item_text))
       IN  /\ IsSpace(At(l0, i)[1])
           /\ MarkerChar(At(l0, i)) = "x"
           /\ \E j \in 0..(i - 1) : IsCheckboxLine(At(l0, j))
    /\ content # before

\* C11: add_phase_to_plan puts in, as one block, the line `### <name>`, one
\* line `- [ ] <item>` per entry of items in the given order and one blank
\* line, right before the first line that starts with "##" and not with
\* "###", or at the end when there is none; the lines of the document keep
\* their content and order.
C11_AddPhaseBlock ==
    LET l0 == lines0
        l1 == lines1
    IN
    op = "add_phase_to_plan"
        => LET tops == {i \in Indices(l0) : IsTopLevelHeading(At(l0, i))}
               k == IF tops = {} THEN Len(l0) ELSE Min(tops)
               n == Len(arg.items)
           IN  /\ Len(l1) = Len(l0) + n + 2
               /\ At(l1, k) = <<"#", "#", "#", " ">> \o arg.phase
               /\ \A j \in 1..n :
                      At(l1, k + j) = <<"-", " ", "[", " ", "]", " ">> \o arg.items[j]
               /\ At(l1, k + n + 1) = <<>>
               /\ \A j \in Indices(l0) :
                      At(l0, j) = At(l1, IF j < k THEN j ELSE j + n + 2)

\* A phase with two items was added to a plan with a "##"-level heading that
\* is not its first line, and lines follow the block.
C11_Witness ==
    LET l0 == lines0
        l1 == lines1
    IN
    /\ op = "add_phase_to_plan"
    /\ Len(arg.items) = 2
    /\ \E i \in Indices(l0) : i > 0 /\ IsTopLevelHeading(At(l0, i))
    /\ Len(l1) = Len(l0) + 4

\* The "### Phase" lines of a document, in order.
PhaseLines(lines) == SelectSeq(lines, LAMBDA line : StartsWith(line, PhasePrefix))

\* C12: validate_phase_exists returns None when the phase is None; for a
\* name it returns None exactly when a line that starts with "### Phase"
\* holds the name in any case; otherwise it returns a message that is not
\* empty and names every "### Phase" heading of the document in order, or
\* says that no phases were found when the document has none.
C12_PhaseValidation ==
    LET l0 == lines0
    IN
    op = "validate_phase_exists"
        => IF arg.phase = None THEN ret = None
           ELSE LET heads == PhaseLines(l0)
                    found == \E i \in 1..Len(heads) :
                                 Contains(Lower(heads[i]), Lower(arg.phase))
                IN  /\ (ret = None) <=> found
                    /\ ~found =>
                           /\ Len(ret) >= 3
                           /\ ret[2] = arg.phase
                           /\ IF heads = <<>>
                              THEN /\ Len(ret) = 3
                                   /\ ret[3] = "' does not exist. No phases found in plan. Use --add-phase to create phases first."
                              ELSE /\ Len(ret) = 2 * Len(heads) + 3
                                   /\ \A i \in 1..Len(heads) :
                                          ret[2 * i + 2] = Strip(heads[i])

\* A name that no heading holds was validated against a plan with two phase
\* headings, one of which ends with white space.
C12_Witness ==
    LET l0 == lines0
    IN
    /\ op = "validate_phase_exists"
    /\ arg.phase # None
    /\ ret # None
    /\ Len(PhaseLines(l0)) >= 2
    /\ \E i \in 1..Len(PhaseLines(l0)) :
           Strip(PhaseLines(l0)[i]) # PhaseLines(l0)[i]

\* C13: validate_no_duplicates returns an error exactly when the text of some
\* checkbox line, checked or not, equals the new item after both are put in
\* lower case, their runs of white space made one blank and their ends
\* trimmed; an item that is only a part of an existing one, or holds one, is
\* no duplicate.
C13_DuplicateIsNormalizedEqual ==
    LET l0 == lines0
    IN
    op = "validate_no_duplicates"
        => LET items == {ItemText(At(l0, i)) :
                            i \in {j \in Indices(l0) : IsCheckboxLine(At(l0, j))}}
               new == Normalize(arg.item_text)
           IN  /\ (ret # None) <=> (\E it \in items : Normalize(it) = new)
               /\ (/\ \E it \in items : Contains(Normalize(it), new)
                                        \/ Contains(new, Normalize(it))
                   /\ \A it \in items : Normalize(it) # new) => ret = None
               /\ \A w \in {new} \cup {Normalize(it) : it \in items} :
                      /\ w = Lower(w)
                      /\ w = Strip(w)
                      /\ \A k \in 1..(Len(w) - 1) :
                             IsWhite(w[k]) => w[k] = " " /\ ~IsWhite(w[k + 1])

\* A new item that differs from a checked item in case and white space was
\* found a duplicate.
C13_Witness ==
    LET l0 == lines0
    IN
    /\ op = "validate_no_duplicates"
    /\ ret # None
    /\ \E i \in Indices(l0) :
           /\ IsCheckboxLine(At(l0, i))
           /\ MarkerChar(At(l0, i)) = "x"
           /\ Normalize(ItemText(At(l0, i))) = Normalize(arg.item_text)
           /\ ItemText(At(l0, i)) # arg.item_text
           /\ Lower(ItemText(At(l0, i))) # Lower(arg.item_text)

\* The score of a candidate as a fraction: 1 for a match in any case,
\* 0.7 + 0.3 * len(target) / len(candidate) when the candidate holds the
\* target, 1 - distance / max_len otherwise.
ScoreOf(target, candidate) ==
    LET t == Lower(target)
        c == Lower(candidate)
        m == IF Len(t) > Len(c) THEN Len(t) ELSE Len(c)
    IN  IF t = c THEN <<1, 1>>
        ELSE IF Contains(c, t) THEN <<7 * Len(c) + 3 * Len(t), 10 * Len(c)>>
        ELSE <<m - calculate_levenshtein_distance(t, c), m>>

\* a > b on two fractions
FracGt(a, b) == a[1] * b[2] > b[1] * a[2]

\* C14: find_similar_items returns exactly the candidates whose score is at
\* least the threshold, each with its score, by descending score, candidates
\* of equal score in the order of the list; every score lies in [0, 1] and
\* is 1 for a match in any case, 0.7 + 0.3 * len(target) / len(candidate)
\* for a candidate that holds the target and 1 - distance / max_len
\* otherwise.
C14_SimilarItems ==
    op = "find_similar_items"
        => LET c == arg.items
               score == [k \in 1..Len(c) |-> ScoreOf(arg.target, c[k])]
               kept == {k \in 1..Len(c) : FracGeq(score[k], arg.threshold)}
               ahead(k) == {j \in kept : \/ FracGt(score[j], score[k])
                                         \/ FracEq(score[j], score[k]) /\ j < k}
           IN  /\ Len(ret) = Cardinality(kept)
               /\ \A k \in kept :
                      LET r == ret[Cardinality(ahead(k)) + 1]
                      IN  r[1] = c[k] /\ FracEq(r[2], score[k])
               /\ \A k \in 1..Len(c) :
                      0 <= score[k][1] /\ score[k][1] <= score[k][2]
               /\ \A i \in 1..(Len(ret) - 1) : FracGeq(ret[i][2], ret[i + 1][2])

\* A search kept some candidates and dropped others; two kept candidates
\* that hold the target tie, two that do not hold it tie at the threshold,
\* and one matches in another case.
C14_Witness ==
    /\ op = "find_similar_items"
    /\ 0 < Len(ret)
    /\ Len(ret) < Len(arg.items)
    /\ \E i \in 1..(Len(ret) - 1) :
           /\ FracEq(ret[i][2], ret[i + 1][2])
           /\ FracEq(ret[i][2], arg.threshold)
    /\ \E i \in 1..(Len(ret) - 1) :
           /\ FracEq(ret[i][2], ret[i + 1][2])
           /\ FracGt(ret[i][2], <<7, 10>>)
           /\ FracGt(One, ret[i][2])
    /\ \E i \in 1..Len(ret) : ret[i][1] # arg.target /\ FracEq(ret[i][2], One)

\* Whether the candidate holds the target in any case.
Holds(candidate, target) == Contains(Lower(candidate), Lower(target))

\* C15 as stated: in the result of find_similar_items every candidate that
\* holds the target in any case comes before every candidate that does not.
C15_SubstringAlwaysFirst ==
    op = "find_similar_items"
        => \A i, j \in 1..Len(ret) :
               (Holds(ret[i][1], arg.target) /\ ~Holds(ret[j][1], arg.target))
                   => i < j

\* C15 amended: a candidate that holds the target in any case scores at least
\* 0.7, so it comes before every candidate that does not hold the target and
\* scores less than 0.7; a candidate that does not hold the target and scores
\* more than a candidate that holds it comes before that one.  In the
\* scenario, target "Write test" with threshold 0.5 gives "Write test file"
\* and then "Run tests", without "Deploy app".
C15_SubstringScoresAtLeast07 ==
    op = "find_similar_items"
        => /\ \A i \in 1..Len(ret) :
                  Holds(ret[i][1], arg.target) => FracGeq(ret[i][2], <<7, 10>>)
           /\ \A i, j \in 1..Len(ret) :
                  (/\ Holds(ret[i][1], arg.target)
                   /\ ~Holds(ret[j][1], arg.target)
                   /\ FracGt(<<7, 10>>, ret[j][2])) => i < j
           /\ \A i, j \in 1..Len(ret) :
                  (/\ Holds(ret[i][1], arg.target)
                   /\ ~Holds(ret[j][1], arg.target)
                   /\ FracGt(ret[j][2], ret[i][2])) => j < i
           /\ (/\ arg.target = <<"W", "r", "i", "t", "e", " ", "t", "e", "s", "t">>
               /\ arg.items = <<<<"W", "r", "i", "t", "e", " ", "t", "e", "s", "t", " ", "f", "i", "l", "e">>,
                                <<"R", "u", "n", " ", "t", "e", "s", "t", "s">>,
                                <<"D", "e", "p", "l", "o", "y", " ", "a", "p", "p">>>>
               /\ arg.threshold = <<5, 10>>)
                  => /\ Len(ret) = 2
                     /\ ret[1][1] = <<"W", "r", "i", "t", "e", " ", "t", "e", "s", "t", " ", "f", "i", "l", "e">>
                     /\ ret[2][1] = <<"R", "u", "n", " ", "t", "e", "s", "t", "s">>

\* The search of the scenario was made: a candidate that holds the target
\* comes before one that does not, and a third one is dropped.
C15_Witness ==
    /\ op = "find_similar_items"
    /\ arg.target = <<"W", "r", "i", "t", "e", " ", "t", "e", "s", "t">>
    /\ arg.threshold = <<5, 10>>
    /\ Len(arg.items) = 3
    /\ Len(ret) = 2
    /\ Holds(ret[1][1], arg.target)
    /\ ~Holds(ret[2][1], arg.target)

\* s without its last character
Front(s) == SubSeq(s, 1, Len(s) - 1)

\* The edit distance by its recurrence: the least number of insertions,
\* deletions and substitutions, each of cost 1, that turn a into b.
RECURSIVE EditDistance(_, _)
EditDistance(a, b) ==
    IF Len(a) = 0 THEN Len(b)
    ELSE IF Len(b) = 0 THEN Len(a)
    ELSE Min({EditDistance(Front(a), b) + 1,
              EditDistance(a, Front(b)) + 1,
              EditDistance(Front(a), Front(b))
                  + (IF a[Len(a)] = b[Len(b)] THEN 0 ELSE 1)})

\* C16: calculate_levenshtein_distance returns a value for every pair of
\* strs, the edit distance with insertions, deletions and substitutions of
\* cost 1: the same for (s1, s2) and (s2, s1), 0 exactly when s1 = s2, the
\* length of the other str when one is empty, at least the difference of the
\* lengths and at most the greater length, and 3 for kitten and sitting.
C16_LevenshteinIsEditDistance ==
    op = "calculate_levenshtein_distance"
        => LET s1 == arg.s1
               s2 == arg.s2
               longer == IF Len(s1) > Len(s2) THEN Len(s1) ELSE Len(s2)
               shorter == IF Len(s1) > Len(s2) THEN Len(s2) ELSE Len(s1)
           IN  /\ ret \in Nat
               /\ (Len(s1) <= MaxStrLen /\ Len(s2) <= MaxStrLen)
                      => ret = EditDistance(s1, s2)
               /\ ret = calculate_levenshtein_distance(s2, s1)
               /\ (ret = 0) <=> (s1 = s2)
               /\ s2 = <<>> => ret = Len(s1)
               /\ s1 = <<>> => ret = Len(s2)
               /\ longer - shorter <= ret
               /\ ret <= longer
               /\ (s1 = Kitten /\ s2 = Sitting) => ret = 3

\* The distance of kitten and sitting was computed, the shorter str first.
C16_Witness ==
    /\ op = "calculate_levenshtein_distance"
    /\ arg.s1 = Kitten
    /\ arg.s2 = Sitting
    /\ Len(arg.s1) < Len(arg.s2)
    /\ ret = 3

\* The pattern is held by the line of the added item and by no other
\* checkbox line of the document the item was added to.
MatchesOnlyAdded ==
    LET added == Split(arg.added)
        hits == LineHits(added, arg.pattern)
    IN  /\ Cardinality(hits) = 1
        /\ \A i \in hits : At(added, i) = NewItemLine(arg.item_text)
        /\ LineHits(lines0, arg.pattern) = {}

\* C17 as stated: for any phase argument, adding an item and then removing
\* with a pattern that matches the line of the item and no other checkbox
\* line gives the document as it was before the item was added.
C17_AddRemoveIsIdentity ==
    (op = "add_then_remove" /\ MatchesOnlyAdded) => content = before

\* C17 amended: adding an item and then removing with a pattern that the
\* whole line of the item holds and no other checkbox line holds gives the
\* document as it was before when the phase was omitted or a "### Phase"
\* heading holds its name; when no heading holds the name of the phase, it
\* gives that document with one blank line more, right before the first line
\* that starts with "##" and not with "###", or at the end.
C17_AddRemoveLeavesBlank ==
    LET l0 == lines0
        l1 == lines1
    IN
    (op = "add_then_remove" /\ MatchesOnlyAdded)
        => IF arg.phase = None \/ PhaseHeads(l0, arg.phase) # {}
           THEN content = before
           ELSE LET tops == {i \in Indices(l0) : IsTopLevelHeading(At(l0, i))}
                    k == IF tops = {} THEN Len(l0) ELSE Min(tops)
                IN  InsertedAt(l0, l1, k, <<>>)

\* An item was added to a phase found by its name, between other lines, and
\* removed again by a pattern that only its line holds.
C17_Witness ==
    LET l0 == lines0
    IN
    /\ op = "add_then_remove"
    /\ MatchesOnlyAdded
    /\ arg.phase # None
    /\ PhaseHeads(l0, arg.phase) # {}
    /\ arg.added # before
    /\ content = before
    /\ \E i \in LineHits(Split(arg.added), arg.pattern) :
           0 < i /\ i < Len(l0)

\* The checkbox lines of a document, in order.
CheckboxLines(lines) == SelectSeq(lines, IsCheckboxLine)

\* C18 as stated: no lookup fails; extract_phase_section returns a section
\* for any document and any line index.
C18_LookupsNeverRaise ==
    LET l0 == lines0
    IN
    /\ (op = "find_checkbox_line" /\ LineHits(l0, arg.item_text) = {})
           => ret = None
    /\ (op = "find_phase_section" /\ PhaseHeads(l0, arg.phase) = {})
           => ret = <<>>
    /\ op = "extract_phase_section"
           => /\ ret # IndexError
              /\ \E s \in Indices(l0), e \in 1..Len(l0) :
                     ret = Join(Slice(l0, s, e))

\* C18 amended: find_checkbox_line returns None and find_phase_section the
\* empty str when nothing matches; count_checkboxes and
\* extract_all_checkbox_items give what they give for the checkbox lines
\* alone, whatever the other lines are; extract_phase_section returns a
\* section that holds the line for an index from 0 to the number of lines
\* less one, and raises IndexError for an index that is the number of lines
\* or more.
C18_IndexErrorPastEnd ==
    LET l0 == lines0
    IN
    /\ (op = "find_checkbox_line" /\ LineHits(l0, arg.item_text) = {})
           => ret = None
    /\ (op = "find_phase_section" /\ PhaseHeads(l0, arg.phase) = {})
           => ret = <<>>
    /\ op = "count_checkboxes"
           => /\ ret = count_checkboxes(Join(CheckboxLines(l0)))
              /\ ret[2] = Len(CheckboxLines(l0))
    /\ op = "extract_all_checkbox_items"
           => /\ Len(ret) = Len(CheckboxLines(l0))
              /\ \A k \in 1..Len(ret) : ret[k] = ItemText(CheckboxLines(l0)[k])
    /\ op = "extract_phase_section"
           => /\ (ret = IndexError) <=> (arg.line_num >= Len(l0))
              /\ arg.line_num < Len(l0) =>
                     \E s \in 0..arg.line_num, e \in (arg.line_num + 1)..Len(l0) :
                         ret = Join(Slice(l0, s, e))

\* extract_phase_section was called with the number of lines of a plan that
\* has phases and items as the index.
C18_Witness ==
    LET l0 == lines0
    IN
    /\ op = "extract_phase_section"
    /\ arg.line_num = Len(l0)
    /\ ret = IndexError
    /\ PhaseHeads(l0, <<>>) # {}
    /\ CheckboxLines(l0) # <<>>

\* The steps of run_all_checks in their order.
StepOrder == <<"format_code", "lint_code", "run_tests">>

\* C19: run_all_checks starts its steps in the order format, lint, tests; a
\* step is started only when every step before it returned 0; at the first
\* result that is not 0 no later step is started and that result is
\* returned; 0 is returned only when the three steps returned 0.
C19_ChecksStopAtFirstFailure ==
    LET failed == {k \in 1..3 : arg[StepOrder[k]] # 0}
        first == IF failed = {} THEN 3 ELSE Min(failed)
    IN  /\ Len(content) <= 3
        /\ content = SubSeq(StepOrder, 1, Len(content))
        /\ \A k \in 1..Len(content) : \A j \in 1..(k - 1) : arg[content[j]] = 0
        /\ op = "return" =>
               /\ content = SubSeq(StepOrder, 1, first)
               /\ ret = arg[StepOrder[first]]
               /\ (ret = 0) <=> (failed = {})
        /\ op # "return" => ret = None

\* run_all_checks has returned the result of a failed linting step, and the
\* tests, which would have failed too, were not started.
C19_Witness ==
    /\ op = "return"
    /\ arg.format_code = 0
    /\ arg.lint_code > 0
    /\ arg.run_tests # 0
    /\ content = <<"format_code", "lint_code">>
    /\ ret = arg.lint_code

\* The session a call of log_execution is about: the one it names, or the
\* most recent one of the directory when it names none.
SessionOf(call) ==
    IF call.session_id = None THEN get_current_session(before)
    ELSE call.session_id

\* The entries, in call order, of the calls from the k-th on that returned
\* and were about the session s.
RECURSIVE EntriesOf(_, _)
EntriesOf(s, k) ==
    IF k > Len(arg) THEN <<>>
    ELSE (IF arg[k].exit = None /\ SessionOf(arg[k]) = s
          THEN log_entry(arg[k].timestamp, get_emoji_for_level(arg[k].level),
                         arg[k].message)
          ELSE <<>>) \o EntriesOf(s, k + 1)

AddWorkflow(e1, e2, e3) ==
    IF e1 # None THEN <<"validate_item_not_empty">>
    ELSE IF e2 # None
    THEN <<"validate_item_not_empty", "validate_phase_exists">>
    ELSE IF e3 # None
    THEN <<"validate_item_not_empty", "validate_phase_exists",
           "validate_no_duplicates">>
    ELSE <<"validate_item_not_empty", "validate_phase_exists",
           "validate_no_duplicates", "add_item_to_plan", "count_checkboxes">>

\* C21: in the add workflow of update_plan the validations run before any
\* mutation, in the order item-not-empty, phase-exists, no-duplicates; when
\* one of them returns an error the invocation exits with status 1, writes
\* nothing and leaves the plan file as it was; the item is written, once,
\* only when the three of them returned None.
C21_ValidationsBeforeMutation ==
    (/\ op = "update_plan"
     /\ before \notin {NoSession, NoPlanFile}
     /\ ~arg.show
     /\ Truthy(arg.add)) =>
        LET e1 == validate_item_not_empty(arg.add)
            e2 == validate_phase_exists(before, arg.phase)
            e3 == validate_no_duplicates(before, arg.add)
            error == e1 # None \/ e2 # None \/ e3 # None
        IN  /\ ret.called = AddWorkflow(e1, e2, e3)
            /\ error => /\ ret.exit = 1
                        /\ ret.written = <<>>
                        /\ content = before
            /\ ~error => /\ ret.exit = 0
                         /\ ret.written = <<content>>
                         /\ content = add_item_to_plan(before, arg.add, arg.phase)
                         /\ content # before

\* An add whose text and phase are valid was refused as a duplicate, the
\* plan file left as it was.
C21_Witness ==
    /\ op = "update_plan"
    /\ arg.add = <<"a">>
    /\ arg.phase = <<"1">>
    /\ ~arg.show
    /\ ret.called = <<"validate_item_not_empty", "validate_phase_exists",
                      "validate_no_duplicates">>
    /\ ret.exit = 1
    /\ content = before
    /\ validate_phase_exists(before, arg.phase) = None

\* The invocation is one of the checkbox mode: --show is not set and none of
\* add, remove, rename and add_phase is true.
CheckboxMode ==
    /\ ~arg.show
    /\ ~Truthy(arg.add) /\ ~Truthy(arg.remove)
    /\ ~Truthy(arg.rename) /\ ~Truthy(arg.add_phase)

\* The item texts of the checkbox lines, in the order of the lines.
ItemTexts(lines) ==
    LET boxes == SelectSeq(lines, LAMBDA line : IsCheckboxLine(line))
    IN  [k \in 1..Len(boxes) |-> ItemText(boxes[k])]

\* C22: update_plan exits with a status that is not 0, writes nothing and
\* leaves the plan file as it was when no session is found, when the session
\* has no plan file, and, in the checkbox mode, when no item is given or the
\* item is held by no checkbox line.  In that last case it shows at most
\* three suggestions: the first ones of find_similar_items with threshold
\* 0.5 over the item texts of all checkbox lines, by descending similarity.
C22_FailuresLeavePlanUnchanged ==
    op = "update_plan" =>
        LET fails == /\ ret.exit # 0
                     /\ ret.written = <<>>
                     /\ content = before
        IN  /\ before \in {NoSession, NoPlanFile} => fails
            /\ (before \notin {NoSession, NoPlanFile} /\ CheckboxMode) =>
                   LET lines == Split(before)
                       found == arg.item # None /\ LineHits(lines, arg.item) # {}
                       similar == IF arg.item = None THEN <<>>
                                  ELSE find_similar_items(arg.item, ItemTexts(lines),
                                                          <<1, 2>>)
                       shown == ret.suggestions
                   IN  /\ ~found => fails
                       /\ found => ret.exit = 0 /\ shown = <<>>
                       /\ (arg.item # None /\ ~found) =>
                              /\ Len(shown) <= 3
                              /\ Len(shown) = Min({3, Len(similar)})
                              /\ \A k \in 1..Len(shown) :
                                     /\ shown[k] = similar[k]
                                     /\ FracGeq(shown[k][2], <<1, 2>>)
                                     /\ \E t \in {ItemTexts(lines)[j] :
                                                     j \in 1..Len(ItemTexts(lines))} :
                                            /\ shown[k][1] = t
                                            /\ FracEq(shown[k][2],
                                                      ScoreOf(arg.item, t))
                              /\ \A k \in 1..(Len(shown) - 1) :
                                     FracGeq(shown[k][2], shown[k + 1][2])

\* An item that no checkbox line holds was asked for on a plan with four
\* similar items: three of them were suggested, the most similar one first,
\* and the plan file is as it was.
C22_Witness ==
    /\ op = "update_plan"
    /\ CheckboxMode
    /\ arg.item = <<"n", "z">>
    /\ before = Join(SuggestionPlan)
    /\ content = before
    /\ ret.exit = 1
    /\ Len(find_similar_items(arg.item, ItemTexts(Split(before)), <<1, 2>>)) = 4
    /\ Len(ret.suggestions) = 3
    /\ ret.suggestions[1][1] = <<"n", "x", "z">>
    /\ FracGt(ret.suggestions[1][2], ret.suggestions[2][2])

\* The checkbox line with the character x between the brackets of its marker.
WithMarker(line, x) == [line EXCEPT ![CheckboxMatch(line) - 1] = x]

\* The lines after the first checkbox line that holds the item in its whole
\* line got its marker set; the lines as they are when no line holds it.
ToggledLines(lines, item, checked) ==
    LET hits == LineHits(lines, item)
    IN  IF hits = {} THEN lines
        ELSE [lines EXCEPT ![Min(hits) + 1] =
                 WithMarker(@, IF checked THEN "x" ELSE " ")]

\* The number of checkbox lines.
BoxCount(lines) == Cardinality({i \in Indices(lines) : IsCheckboxLine(At(lines, i))})

\* What an invocation of the checkbox mode that found its item did to the
\* plan file: one line, the first checkbox line whose whole line holds the
\* item, has its marker set to `[x]` when check is true and uncheck false and
\* to `[ ]` otherwise; its indentation and item text, every other line and
\* the number of checkbox lines are as before.
ToggleFrame ==
    (op = "update_plan" /\ ret.exit = 0) =>
        LET l0 == lines0
            l1 == lines1
            hits == LineHits(l0, arg.item)
            i == Min(hits)
            m == CheckboxMatch(At(l0, i)) - 1
        IN  /\ hits # {}
            /\ Len(l1) = Len(l0)
            /\ \A j \in Indices(l0) : j # i => At(l1, j) = At(l0, j)
            /\ Len(At(l1, i)) = Len(At(l0, i))
            /\ \A k \in 1..Len(At(l0, i)) : k # m => At(l1, i)[k] = At(l0, i)[k]
            /\ At(l1, i)[m] = IF arg.check /\ ~arg.uncheck THEN "x" ELSE " "
            /\ IsCheckboxLine(At(l1, i))
            /\ ItemText(At(l1, i)) = ItemText(At(l0, i))
            /\ BoxCount(l1) = BoxCount(l0)
            /\ ret.written = <<content>>

\* C23 as stated: the frame of the toggle, and the same invocation made once
\* more leaves the plan file as the first one left it.
C23_RepeatChangesNothing ==
    /\ ToggleFrame
    /\ op = "update_plan_again" =>
           content = Join(ToggledLines(lines0, arg.item,
                                       arg.check /\ ~arg.uncheck))

\* C23: the frame of the toggle; the same invocation made once more leaves
\* the plan file as the first one left it when the toggled line holds the
\* item in its item text.  In every case the repetition acts on the first
\* checkbox line that holds the item after the first invocation: when the
\* item was held through the marker only, that is the next such line, or no
\* line at all, and then the repetition exits with status 1.
C23_RepeatOnItemText ==
    /\ ToggleFrame
    /\ op = "update_plan_again" =>
           LET checked == arg.check /\ ~arg.uncheck
               l0 == lines0
               first == ToggledLines(l0, arg.item, checked)
               line == At(l0, Min(LineHits(l0, arg.item)))
           IN  /\ content = Join(ToggledLines(first, arg.item, checked))
               /\ Contains(Lower(ItemText(line)), Lower(arg.item))
                      => content = Join(first)
               /\ ret.exit = IF LineHits(first, arg.item) = {} THEN 1 ELSE 0

\* An invocation checked an unchecked line that holds the item in its text,
\* and its repetition left the file as it was after the first invocation.
C23_Witness ==
    /\ op = "update_plan_again"
    /\ arg.item = <<"a">>
    /\ arg.check /\ ~arg.uncheck
    /\ ret.exit = 0
    /\ LET l0 == lines0
           i == Min(LineHits(l0, arg.item))
       IN  /\ MarkerChar(At(l0, i)) = " "
           /\ MarkerChar(At(lines1, i)) = "x"
           /\ content = Join(ToggledLines(l0, arg.item, TRUE))
           /\ content # before

\* The list new is the list old with the d lines from index k on taken out
\* and the lines of block put in their place; every other line of old is in
\* new as it was, in the order it was in.
Replaced(old, new, k, d, block) ==
    /\ k + d <= Len(old)
    /\ new = SubSeq(old, 1, k) \o block \o SubSeq(old, k + d + 1, Len(old))

\* C24: every mutation leaves the lines it does not target as they were and
\* in their order.  The toggle of update_plan and the rename change at most
\* one line, which is a checkbox line, and neither add nor drop a line; the
\* remove takes out at most one line, a checkbox line, and adds none; the
\* add of an item puts in the one new item line, or a blank line and the item
\* line, and takes out none; the add of a phase puts in the heading, one line
\* for each item and a blank line, and takes out none.
C24_OtherLinesPreserved ==
    LET l0 == lines0
        l1 == lines1
        places == 0..Len(l0)
        boxes == {k \in Indices(l0) : IsCheckboxLine(At(l0, k))}
    IN  /\ op \in {"update_plan", "rename_item_in_plan"} =>
               \/ l1 = l0
               \/ \E k \in boxes : \E line \in {At(l1, k)} :
                      /\ Len(l1) = Len(l0)
                      /\ Replaced(l0, l1, k, 1, <<line>>)
        /\ op = "remove_item_from_plan" =>
               \/ l1 = l0
               \/ \E k \in boxes : Replaced(l0, l1, k, 1, <<>>)
        /\ op = "add_item_to_plan" =>
               \E k \in places :
                   \/ Replaced(l0, l1, k, 0, <<NewItemLine(arg.item_text)>>)
                   \/ Replaced(l0, l1, k, 0, <<<<>>, NewItemLine(arg.item_text)>>)
        /\ op = "add_phase_to_plan" =>
               \E k \in places :
                   Replaced(l0, l1, k, 0,
                            <<H3Prefix \o <<" ">> \o arg.phase>>
                            \o [j \in 1..Len(arg.items) |->
                                    NewItemLine(arg.items[j])]
                            \o <<<<>>>>)

\* A rename changed a line that has lines before it and after it: those are
\* as they were.
C24_Witness ==
    /\ op = "rename_item_in_plan"
    /\ content # before
    /\ \E k \in Indices(lines0) :
           /\ 0 < k /\ k + 1 < Len(lines0)
           /\ At(lines1, k) # At(lines0, k)
           /\ Replaced(lines0, lines1, k, 1, <<At(lines1, k)>>)

\* Both invocations have ended.
RaceOver == \A p \in Procs : ret[p].pc = "done"

\* The processes that wrote the plan file.
Writers == {p \in Procs : ret[p].wrote_at > 0}

\* The writer whose write came last.
LastWriter == CHOOSE p \in Writers : \A q \in Writers : ret[q].wrote_at <= ret[p].wrote_at

\* The text a writer wrote: its change made to the text it read.
TextOf(p) == ret[p].outcome.written[1]

\* C25 as stated: when two invocations on one plan file have ended, the file
\* is the text of the last writer, its change made to the text it read, and
\* nothing else (the file as it was when neither wrote).
C25_LastWriterWins ==
    RaceOver =>
        IF Writers = {} THEN content = before
        ELSE content = TextOf(LastWriter)

\* C25: when two invocations on one plan file have ended, the file begins
\* with the text of the last writer, its change made to the text it read;
\* it is that text and nothing else unless the other writer wrote a longer
\* text after the last writer had opened the file, and then the end of the
\* longer text follows it.  The text an invocation read is the file of the
\* start, the text the other one wrote, or the empty file the other one had
\* opened; an invocation that wrote exits with status 0.
C25_LastWriterFirst ==
    /\ \A p \in Procs :
           ret[p].pc # "read" =>
               /\ ret[p].read \in {before, <<>>}
                                     \cup {TextOf(q) : q \in Writers \ {p}}
               /\ ret[p].outcome = update_plan(ret[p].read, arg[p])
               /\ p \in Writers => ret[p].outcome.exit = 0
    /\ RaceOver =>
           IF Writers = {} THEN content = before
           ELSE LET last == TextOf(LastWriter)
                    others == Writers \ {LastWriter}
                IN  /\ StartsWith(content, last)
                    /\ \/ content = last
                       \/ \E q \in others :
                              /\ Len(TextOf(q)) > Len(last)
                              /\ content = last \o SubSeq(TextOf(q), Len(last) + 1,
                                                          Len(TextOf(q)))

\* Both invocations read the plan of the start and both exited with status
\* 0 after writing: the add of the item came first, the toggle last, and the
\* file is the toggled plan without the added item.
C25_Witness ==
    /\ RaceOver
    /\ Writers = Procs
    /\ \A p \in Procs : ret[p].read = before /\ ret[p].outcome.exit = 0
    /\ arg[1].add = <<"n", "z">>
    /\ arg[2].item = <<"a">>
    /\ LastWriter = 2
    /\ content = TextOf(2)
    /\ TextOf(1) # before
    /\ ~Contains(content, <<"n", "z">>)
    /\ Contains(TextOf(1), <<"n", "z">>)

\* The add took the fallback of a phase that is not found: a blank line and
\* the item line stand before the first "##"-level heading, or at the end.
FallbackTaken(l0, l1, item_text) ==
    LET tops == {i \in Indices(l0) : IsTopLevelHeading(At(l0, i))}
        k == IF tops = {} THEN Len(l0) ELSE Min(tops)
    IN  Replaced(l0, l1, k, 0, <<<<>>, NewItemLine(item_text)>>)

\* The one item line was put inside the section of the first phase heading
\* that holds the name.
LandsInPhase(l0, l1, name, item_text) ==
    /\ PhaseHeads(l0, name) # {}
    /\ LET h == Min(PhaseHeads(l0, name))
       IN  \E k \in (h + 1)..SectionEnd(l0, h, EndsPhase) :
               InsertedAt(l0, l1, k, NewItemLine(item_text))

\* The one item line was put where an add without a phase puts it: after the
\* last checkbox line of the document, or at the end.
LandsAfterLastBox(l0, l1, item_text) ==
    LET boxes == {i \in Indices(l0) : IsCheckboxLine(At(l0, i))}
    IN  InsertedAt(l0, l1, IF boxes = {} THEN Len(l0) ELSE Max(boxes) + 1,
                   NewItemLine(item_text))

\* C26 as stated: for every phase name that is not None,
\* validate_phase_exists returns None exactly when add_item_to_plan finds a
\* heading for it: then the item lands inside the section of that phase, and
\* else the fallback is taken; an add of update_plan that passed the
\* validation lands inside the section of the phase.
C26_LookupsAgree ==
    LET l0 == lines0
        l1 == lines1
    IN  /\ (op = "add_item_to_plan" /\ arg.phase # None) =>
               IF validate_phase_exists(before, arg.phase) = None
               THEN LandsInPhase(l0, l1, arg.phase, arg.item_text)
               ELSE FallbackTaken(l0, l1, arg.item_text)
        /\ (op = "update_plan" /\ arg.phase # None /\ ret.exit = 0) =>
               /\ ~FallbackTaken(l0, l1, arg.add)
               /\ LandsInPhase(l0, l1, arg.phase, arg.add)

\* C26: for every phase name that is neither None nor empty,
\* validate_phase_exists returns None exactly when add_item_to_plan finds a
\* heading for it: then the item lands inside the section of that phase, and
\* else the fallback is taken; an add of update_plan that passed the
\* validation lands inside the section of the phase.  The empty name passes
\* the validation exactly when the plan has a "### Phase" heading, and
\* add_item_to_plan takes it for an omitted phase: the item lands after the
\* last checkbox line of the document, which is no fallback either.
C26_LookupsAgreeOnNames ==
    LET l0 == lines0
        l1 == lines1
    IN  /\ (op = "add_item_to_plan" /\ arg.phase # None /\ arg.phase # <<>>) =>
               IF validate_phase_exists(before, arg.phase) = None
               THEN LandsInPhase(l0, l1, arg.phase, arg.item_text)
               ELSE FallbackTaken(l0, l1, arg.item_text)
        /\ (op = "add_item_to_plan" /\ arg.phase = <<>>) =>
               /\ validate_phase_exists(before, arg.phase) = None
                      <=> PhaseHeads(l0, <<>>) # {}
               /\ LandsAfterLastBox(l0, l1, arg.item_text)
        /\ (op = "update_plan" /\ arg.phase # None /\ ret.exit = 0) =>
               /\ ~FallbackTaken(l0, l1, arg.add)
               /\ IF arg.phase = <<>> THEN LandsAfterLastBox(l0, l1, arg.add)
                  ELSE LandsInPhase(l0, l1, arg.phase, arg.add)
        /\ (op = "update_plan" /\ arg.phase # None /\ ret.exit = 1) =>
               content = before

\* An add of update_plan named its phase in another case than the heading;
\* it passed the validation and the item landed in the section of that
\* phase, which is not the first one.
C26_Witness ==
    /\ op = "update_plan"
    /\ arg.phase = <<"P", "H", "A", "S", "E", " ", "2">>
    /\ ret.exit = 0
    /\ validate_phase_exists(before, arg.phase) = None
    /\ Min(PhaseHeads(lines0, arg.phase)) > 0
    /\ LandsInPhase(lines0, lines1, arg.phase, arg.add)
    /\ content # before

\* The number of checkbox lines whose item text is w once normalized.
ItemCount(lines, w) ==
    Cardinality({i \in Indices(lines) :
                    IsCheckboxLine(At(lines, i))
                    /\ Normalize(ItemText(At(lines, i))) = w})

\* What C27 says of the adds whose text satisfies Covers: after
\* add_item_to_plan of a text that is not blank, validate_no_duplicates of
\* that text returns an error on the result; in a sequence of adds of
\* update_plan, an add is refused when an add of the same normalized text
\* was made before it, and for no normalized text added does the plan hold
\* two items more than it held at the start, nor one more when it held one.
DuplicatesSeen(Covers(_)) ==
    /\ (op = "add_item_to_plan" /\ Covers(arg.item_text)
        /\ Strip(arg.item_text) # <<>>) =>
           validate_no_duplicates(content, arg.item_text) # None
    /\ (op = "update_plan" /\ \A k \in 1..Len(arg) : Covers(arg[k].cmd.add)) =>
           LET l0 == lines0
               l1 == lines1
           IN  /\ \A i, j \in 1..Len(arg) :
                      (/\ i < j
                       /\ arg[i].exit = 0
                       /\ Normalize(arg[i].cmd.add) = Normalize(arg[j].cmd.add))
                          => arg[j].exit = 1
               /\ \A k \in 1..Len(arg) :
                      LET w == Normalize(arg[k].cmd.add)
                      IN  ItemCount(l1, w)
                              <= IF ItemCount(l0, w) = 0 THEN 1
                                 ELSE ItemCount(l0, w)

\* Any text.
AnyText(text) == TRUE

\* A text without a line break.
OneLine(text) == ~Contains(text, <<NL>>)

\* C27 as stated, for any text that is not blank.
C27_DuplicatesAlwaysSeen == DuplicatesSeen(AnyText)

\* C27: duplicate detection sees every item of one line that the tool adds:
\* the statement above holds for the texts that hold no line break.
C27_OneLineDuplicatesSeen == DuplicatesSeen(OneLine)

\* An add of update_plan was made, and a second add of the same text in
\* another case and with other white space was refused: the plan holds the
\* item once.
C27_Witness ==
    /\ op = "update_plan"
    /\ Len(arg) = 2
    /\ arg[1].cmd.add = <<"n", " ", "z">>
    /\ arg[2].cmd.add = <<"n", " ", "\t", "Z">>
    /\ arg[1].exit = 0
    /\ arg[2].exit = 1
    /\ ItemCount(lines0, <<"n", " ", "z">>) = 0
    /\ ItemCount(lines1, <<"n", " ", "z">>) = 1

\* C28: a phase created by add_phase_to_plan is addressable afterwards: on
\* the result of add_phase_to_plan(content, name), validate_phase_exists of
\* the name returns None, and add_item_to_plan with phase=name puts the line
\* of the item right after the new `### <name>` heading, which stands before
\* the first top-level heading of the plan or at its end.
C28_NewPhaseAddressable ==
    /\ op = "phase_then_validate" => ret = None
    /\ op = "phase_then_add" =>
           LET k == FirstTopLevelIndex(lines0)
               heading == <<"#", "#", "#", " ">> \o arg.name
           IN  /\ Replaced(lines0, Split(arg.added), k, 0, <<heading, <<>>>>)
               /\ Replaced(Split(arg.added), lines1, k + 1, 0,
                           <<NewItemLine(arg.item_text)>>)

\* The functions that change the text of the plan in the edit mode.
EditFunctions ==
    {"add_item_to_plan", "remove_item_from_plan", "rename_item_in_plan",
     "add_phase_to_plan"}

\* How many times an invocation called the function f.
Calls(r, f) == Cardinality({i \in 1..Len(r.called) : r.called[i] = f})

\* The edit functions an invocation called.
Applied(r) == {f \in EditFunctions : Calls(r, f) > 0}

\* One of add, remove, rename, add_phase is given: it is true for `any`.
EditGiven(a) ==
    Truthy(a.add) \/ Truthy(a.remove) \/ Truthy(a.rename) \/ Truthy(a.add_phase)

\* The function of the first edit argument given, in the order add, remove,
\* rename, add_phase.
FirstEdit(a) ==
    IF Truthy(a.add) THEN "add_item_to_plan"
    ELSE IF Truthy(a.remove) THEN "remove_item_from_plan"
    ELSE IF Truthy(a.rename) THEN "rename_item_in_plan"
    ELSE "add_phase_to_plan"

\* What the first edit given makes of the plan.
FirstEditResult(plan, a) ==
    IF Truthy(a.add) THEN add_item_to_plan(plan, a.add, a.phase)
    ELSE IF Truthy(a.remove) THEN remove_item_from_plan(plan, a.remove)
    ELSE IF Truthy(a.rename) THEN rename_item_in_plan(plan, a.rename, a.to)
    ELSE add_phase_to_plan(plan, a.add_phase, <<>>)

\* With show set nothing is written, no edit is applied and no checkbox is
\* toggled, whatever other arguments are given.
ShowWritesNothing ==
    (op = "update_plan" /\ arg.show) =>
        /\ ret.written = <<>>
        /\ content = before
        /\ Applied(ret) = {}
        /\ Calls(ret, "toggle_checkbox") = 0

\* Without show and without an edit argument no edit is applied, and the
\* plan is written only by the checkbox toggle.
ToggleOnlyInCheckboxMode ==
    (op = "update_plan" /\ ~arg.show /\ ~EditGiven(arg)) =>
        /\ Applied(ret) = {}
        /\ Calls(ret, "toggle_checkbox") <= 1
        /\ IF Calls(ret, "toggle_checkbox") = 1
           THEN ret.exit = 0 /\ ret.written = <<content>>
           ELSE ret.exit = 1 /\ ret.written = <<>> /\ content = before

\* C29 as stated, for the invocations that find a session and its plan
\* file: whenever an edit argument is given and show is not set, exactly one
\* edit is applied and the plan file is written once.
C29_ExactlyOneAction ==
    /\ ShowWritesNothing
    /\ ToggleOnlyInCheckboxMode
    /\ (op = "update_plan" /\ ~arg.show /\ EditGiven(arg)
        /\ before \notin {NoSession, NoPlanFile}) =>
           /\ Applied(ret) = {FirstEdit(arg)}
           /\ Calls(ret, FirstEdit(arg)) = 1
           /\ Len(ret.written) = 1
           /\ Calls(ret, "toggle_checkbox") = 0

\* C29: one invocation of update_plan performs at most one action.  With
\* show set it writes nothing.  Otherwise, when one of add, remove, rename,
\* add_phase is given, no checkbox is toggled, whatever the item argument,
\* and no edit but the first one given is applied; an invocation that exits
\* with 0 has applied that edit once to the plan it read and has written the
\* result once; one that exits with 1 has applied none and written nothing.
\* Only when none is given is the checkbox toggle performed.
C29_AtMostOneAction ==
    /\ ShowWritesNothing
    /\ ToggleOnlyInCheckboxMode
    /\ (op = "update_plan" /\ ~arg.show /\ EditGiven(arg)) =>
           /\ Calls(ret, "toggle_checkbox") = 0
           /\ Applied(ret) \subseteq {FirstEdit(arg)}
           /\ ret.exit \in {0, 1}
           /\ ret.exit = 0 =>
                  /\ Calls(ret, FirstEdit(arg)) = 1
                  /\ content = FirstEditResult(before, arg)
                  /\ ret.written = <<content>>
           /\ ret.exit = 1 =>
                  /\ Applied(ret) = {}
                  /\ ret.written = <<>>
                  /\ content = before

\* An invocation with add, remove, rename, add_phase and an item all given
\* has added the item, written the plan once and toggled nothing; the remove
\* would have changed the plan too.
C29_Witness ==
    /\ op = "update_plan"
    /\ ~arg.show
    /\ Truthy(arg.add) /\ Truthy(arg.remove) /\ Truthy(arg.rename)
    /\ Truthy(arg.add_phase) /\ Truthy(arg.item)
    /\ ret.exit = 0
    /\ Applied(ret) = {"add_item_to_plan"}
    /\ ret.written = <<content>>
    /\ content # before
    /\ remove_item_from_plan(content, arg.remove) # content

\* The calls of the checkbox mode that are made on the two copies.
CopyCalls ==
    {"update_plan", "find_checkbox_line", "toggle_checkbox",
     "count_checkboxes", "extract_phase_section"}

\* C30: the two copies of the tool are equivalent on the checkbox mode: for
\* every plan file and all item, check, uncheck and show arguments the
\* template copy and the current copy of update_plan leave the plan file
\* with the same content, after the same writes, and exit with the same
\* status; find_checkbox_line, toggle_checkbox, count_checkboxes and
\* extract_phase_section return the same results on the same inputs.
C30_CopiesEquivalent ==
    op \in CopyCalls =>
        IF op = "update_plan"
        THEN /\ ret.template.content = ret.current.content
             /\ ret.template.exit = ret.current.exit
             /\ ret.template.written = ret.current.written
        ELSE ret.template = ret.current

\* The template copy has unchecked an item that is looked up in another
\* case on a plan that the current copy answers with suggestions when the
\* item is not found; the current copy did the same.
C30_Witness ==
    /\ op = "update_plan"
    /\ ~arg.show
    /\ arg.uncheck
    /\ arg.item = <<"B">>
    /\ ret.template.exit = 0
    /\ ret.template.written = <<content>>
    /\ content # before
    /\ ret.current.content = content

====
